---- MODULE Spec2Model ----
(***************************************************************************)
(* A model of django-timetracker: the time validation helpers, the AJAX    *)
(* entry handlers, the holiday planning endpoint, the CSV report endpoints *)
(* and the holiday-balance accumulator, over a store of users and          *)
(* tracking entries.                                                       *)
(*                                                                         *)
(* Strings that the code parses (times, dates) are sequences of one-       *)
(* character strings, so that formatting and parsing are computed.         *)
(***************************************************************************)
EXTENDS Integers, Sequences, FiniteSets, TLC

VARIABLES
    users,      \* Tbluser rows: id -> [user_id, holiday_balance, user_type, shiftlength]
    auth,       \* Tblauthorization rows: id -> [admin, users], the admin's id
                \* and the ids of the users linked to the admin
    entries,    \* TrackingEntry rows: a set of records
    nextId,     \* the auto-increment counter of the TrackingEntry table
    response,   \* what the last request returned
    call,       \* the last call of a utility function and its result
    nextUserId, \* the auto-increment counter of the Tbluser table
    workers     \* the add-entry requests that server processes run side by side:
                \* process -> [pc, req, response]

vars == <<users, auth, entries, nextId, response, call, nextUserId, workers>>

\* ------------------------------------------------------------------------
\* Python values
\* ------------------------------------------------------------------------

Digit == <<"0", "1", "2", "3", "4", "5", "6", "7", "8", "9">>

IsDigit(c) == \E d \in 1..10 : Digit[d] = c

DigitVal(c) == (CHOOSE d \in 1..10 : Digit[d] = c) - 1

\* a local name: F applied to a value that is computed once
With(v, F(_)) == F(v)

With2(v, w, F(_, _)) == F(v, w)

With4(v, w, x, y, F(_, _, _, _)) == F(v, w, x, y)

\* a returned value, or a raised exception
Ok(v) == [exc |-> "", val |-> v]

Raise(e, v) == [exc |-> e, val |-> v]

\* str(n) of a natural number
RECURSIVE PyStr(_)
PyStr(n) == IF n < 10 THEN <<Digit[n + 1]>>
            ELSE PyStr(n \div 10) \o <<Digit[(n % 10) + 1]>>

RECURSIVE Decimal(_)
Decimal(s) == IF s = <<>> THEN 0
              ELSE Decimal(SubSeq(s, 1, Len(s) - 1)) * 10 + DigitVal(s[Len(s)])

\* int(s) of a string: ValueError unless s is a non-empty run of digits
PyInt(s) == IF s # <<>> /\ \A i \in 1..Len(s) : IsDigit(s[i])
            THEN Ok(Decimal(s))
            ELSE Raise("ValueError", 0)

\* s.split(sep) for a one-character separator
PyFind(s, sep) ==
    CHOOSE k \in 1..Len(s) : s[k] = sep /\ \A j \in 1..(k - 1) : s[j] # sep

RECURSIVE PySplit(_, _)
PySplit(s, sep) ==
    IF \E i \in 1..Len(s) : s[i] = sep
    THEN With(PyFind(s, sep), LAMBDA i :
             <<SubSeq(s, 1, i - 1)>> \o PySplit(SubSeq(s, i + 1, Len(s)), sep))
    ELSE <<s>>

\* sep.join(parts)
RECURSIVE PyJoin(_, _)
PyJoin(sep, parts) ==
    IF parts = <<>> THEN <<>>
    ELSE IF Len(parts) = 1 THEN parts[1]
    ELSE parts[1] \o <<sep>> \o PyJoin(sep, Tail(parts))

\* map(int, parts): the first failing conversion raises
MapInt(parts) ==
    IF \E i \in 1..Len(parts) : PyInt(parts[i]).exc # ""
    THEN Raise("ValueError", <<>>)
    ELSE Ok([i \in 1..Len(parts) |-> PyInt(parts[i]).val])

\* datetime.time(hour, minute) accepts 0..23 and 0..59 only
TimeInRange(hour, minute) == hour \in 0..23 /\ minute \in 0..59

\* datetime.time.__lt__ : ordered by hour, then minute
TimeLess(a, b) == a[1] < b[1] \/ (a[1] = b[1] /\ a[2] < b[2])

TimeGreater(a, b) == TimeLess(b, a)

\* ------------------------------------------------------------------------
\* timetracker/utils/calendar_utils.py : pad, parse_time, validate_time
\* ------------------------------------------------------------------------

pad(string, padchr, amount) ==
    IF Len(string) < amount
    THEN [i \in 1..(amount - Len(string)) |-> padchr] \o string
    ELSE string

parse_time(timestring) == MapInt(PySplit(timestring, ":"))

\* datetime.time(*parse_time(timestring)): the time, or ValueError
MakeTime(timestring) ==
    With(parse_time(timestring), LAMBDA t :
        IF t.exc # "" THEN Raise("ValueError", <<>>)
        ELSE IF Len(t.val) # 2 THEN Raise("ValueError", <<>>)
        ELSE IF ~TimeInRange(t.val[1], t.val[2]) THEN Raise("ValueError", <<>>)
        ELSE Ok(t.val))

\* validate_time with <= for <
validate_time_le(start, end) ==
    With2(MakeTime(start), MakeTime(end), LAMBDA s, e :
        IF s.exc # "" \/ e.exc # "" THEN Raise("ValueError", FALSE)
        ELSE Ok(~TimeLess(e.val, s.val)))

validate_time(start, end) ==
    With2(MakeTime(start), MakeTime(end), LAMBDA s, e :
        IF s.exc # "" \/ e.exc # "" THEN Raise("ValueError", FALSE)
        ELSE Ok(TimeLess(s.val, e.val)))

\* ------------------------------------------------------------------------
\* Inputs of the utility-function specification
\* ------------------------------------------------------------------------

\* "HH:MM" for an hour and a minute, as the client's time picker writes it
TimeStr(h, m) == pad(PyStr(h), "0", 2) \o <<":">> \o pad(PyStr(m), "0", 2)

UtilHours == 0..23

UtilMinutes == {0, 1, 30, 59}

WellFormedTimes == {TimeStr(h, m) : h \in UtilHours, m \in UtilMinutes}

MalformedTimes == { <<"0", "9", "0", "0">>,
                    <<"2", "4", ":", "0", "0">>,
                    <<"0", "9", ":", "6", "0">>,
                    <<"0", "9", ":", "x", "0">>,
                    <<"0", "9", ":", "0", "0", ":", "0", "0">> }

UtilTimes == WellFormedTimes \cup MalformedTimes

\* ------------------------------------------------------------------------
\* Dates and times as the model fields read them
\* ------------------------------------------------------------------------

IsLeap(year) == (year % 4 = 0) /\ ((year % 100 # 0) \/ (year % 400 = 0))

DaysInMonth(year, month) ==
    IF month = 2 THEN (IF IsLeap(year) THEN 29 ELSE 28)
    ELSE IF month \in {4, 6, 9, 11} THEN 30 ELSE 31

RECURSIVE DaysBeforeMonth(_, _)
DaysBeforeMonth(year, month) ==
    IF month <= 1 THEN 0
    ELSE DaysBeforeMonth(year, month - 1) + DaysInMonth(year, month - 1)

\* datetime.date(year, month, day).weekday(): 0 is Monday
Weekday(year, month, day) ==
    LET y == year - 1
        ordinal == y * 365 + (y \div 4) - (y \div 100) + (y \div 400)
                   + DaysBeforeMonth(year, month) + day
    IN  (ordinal + 6) % 7

\* DateField.to_python: "YYYY-M-D" with a date that exists, else ValidationError
ParseDate(s) ==
    With2(PySplit(s, "-"), MapInt(PySplit(s, "-")), LAMBDA parts, nums :
        IF nums.exc # "" \/ Len(parts) # 3 THEN Raise("ValidationError", <<>>)
        ELSE IF Len(parts[1]) # 4 \/ Len(parts[2]) > 2 \/ Len(parts[3]) > 2
             THEN Raise("ValidationError", <<>>)
        ELSE IF nums.val[1] < 1 \/ nums.val[2] \notin 1..12
             THEN Raise("ValidationError", <<>>)
        ELSE IF nums.val[3] \notin 1..DaysInMonth(nums.val[1], nums.val[2])
             THEN Raise("ValidationError", <<>>)
        ELSE Ok(nums.val))

\* TimeField.to_python: "HH:MM" or "HH:MM:SS", else ValidationError
ParseTimeField(s) ==
    With(MapInt(PySplit(s, ":")), LAMBDA nums :
        IF nums.exc # "" \/ Len(nums.val) \notin {2, 3}
        THEN Raise("ValidationError", <<>>)
        ELSE IF ~TimeInRange(nums.val[1], nums.val[2])
             THEN Raise("ValidationError", <<>>)
        ELSE IF Len(nums.val) = 3 /\ nums.val[3] \notin 0..59
             THEN Raise("ValidationError", <<>>)
        ELSE Ok(<<nums.val[1], nums.val[2],
                  IF Len(nums.val) = 3 THEN nums.val[3] ELSE 0>>))

\* "YYYY-MM-DD" as the date picker and the calendar cells write it
DateStr(y, m, d) ==
    PyJoin("-", <<pad(PyStr(y), "0", 2), pad(PyStr(m), "0", 2), pad(PyStr(d), "0", 2)>>)

\* ------------------------------------------------------------------------
\* The TrackingEntry table
\* ------------------------------------------------------------------------

\* MySQL's error code for a violated unique key
DUPLICATE_ENTRY == 1062

\* a table without the unique key: no row is ever in the way
UniqueKeyNeverTaken(es, row) == FALSE

\* the (user, entry_date) unique key: is the key of row taken by another row

UniqueKeyTaken(es, row) ==
    \E e \in es : /\ e.user_id = row.user_id
                  /\ e.entry_date = row.entry_date
                  /\ e.id # row.id

\* TrackingEntry(**form) with its fields converted as the model fields do
CleanRow(id, form) ==
    With4(ParseDate(form.entry_date), ParseTimeField(form.start_time),
          ParseTimeField(form.end_time), ParseTimeField(form.breaks),
          LAMBDA d, s, e, b :
        IF d.exc # "" \/ s.exc # "" \/ e.exc # "" \/ b.exc # ""
        THEN Raise("ValidationError", <<>>)
        ELSE Ok([id |-> id, user_id |-> form.user_id, entry_date |-> d.val,
                 start_time |-> s.val, end_time |-> e.val, breaks |-> b.val,
                 daytype |-> form.daytype]))

\* the outcome of a write: the exception raised, its code, and the table
Written(es, nid) == [exc |-> "", code |-> 0, entries |-> es, nextId |-> nid]

Failed(exc, code, es, nid) == [exc |-> exc, code |-> code, entries |-> es, nextId |-> nid]

\* entry.save() of a row without a primary key: INSERT with the next id
SaveNew(es, nid, form) ==
    With(CleanRow(nid, form), LAMBDA row :
        IF row.exc # "" THEN Failed(row.exc, 0, es, nid)
        ELSE IF UniqueKeyTaken(es, row.val)
             THEN Failed("IntegrityError", DUPLICATE_ENTRY, es, nid)
        ELSE Written(es \cup {row.val}, nid + 1))

\* entry.save() of a row with a primary key: UPDATE the row with that key when
\* there is one, else INSERT it with that key
SaveWithId(es, nid, id, form) ==
    With(CleanRow(id, form), LAMBDA row :
        IF row.exc # "" THEN Failed(row.exc, 0, es, nid)
        ELSE IF UniqueKeyTaken(es, row.val)
             THEN Failed("IntegrityError", DUPLICATE_ENTRY, es, nid)
        ELSE Written({e \in es : e.id # id} \cup {row.val},
                     IF id >= nid THEN id + 1 ELSE nid))

\* entry.delete(): DELETE the row with that primary key, if any
DeleteById(es, id) == {e \in es : e.id # id}

\* the entries of the month, whoever owns them
EntriesOfMonthOfAnyUser(es, user, year, month) ==
    {e \in es : e.entry_date[1] = year /\ e.entry_date[2] = month}

\* TrackingEntry.objects.filter(user=.., entry_date__year=.., entry_date__month=..)
EntriesOfMonth(es, user, year, month) ==
    {e \in es : e.user_id = user /\ e.entry_date[1] = year /\ e.entry_date[2] = month}

\* ------------------------------------------------------------------------
\* gen_calendar
\* ------------------------------------------------------------------------

\* the weeks of the month with Sunday in the first column
monthcalendar_sunday_first(year, month) ==
    With2((Weekday(year, month, 1) + 1) % 7, DaysInMonth(year, month),
          LAMBDA first, ndays :
        [w \in 1..((first + ndays + 6) \div 7) |->
            [c \in 1..7 |->
                With((w - 1) * 7 + (c - 1) - first + 1, LAMBDA d :
                    IF d \in 1..ndays THEN d ELSE 0)]])

\* calendar.monthcalendar(year, month): weeks of seven days, Monday first,
\* days outside the month are 0
monthcalendar(year, month) ==
    With2(Weekday(year, month, 1), DaysInMonth(year, month), LAMBDA first, ndays :
        [w \in 1..((first + ndays + 6) \div 7) |->
            [c \in 1..7 |->
                With((w - 1) * 7 + (c - 1) - first + 1, LAMBDA d :
                    IF d \in 1..ndays THEN d ELSE 0)]])

\* one <td> of the calendar
CalendarCell(database, year, month, _day) ==
    IF \E e \in database : e.entry_date[3] = _day
    THEN With(CHOOSE e \in database : e.entry_date[3] = _day, LAMBDA data :
             [day |-> _day, class |-> "day-class", id |-> data.id,
              entry_date |-> data.entry_date, start_time |-> data.start_time,
              end_time |-> data.end_time, breaks |-> data.breaks,
              daytype |-> data.daytype, onclick |-> <<>>])
    ELSE [day |-> _day,
          class |-> IF _day # 0 THEN "day-class empty-day" ELSE "empty",
          id |-> 0, entry_date |-> <<>>, start_time |-> <<>>, end_time |-> <<>>,
          breaks |-> <<>>, daytype |-> "",
          onclick |-> IF _day # 0 THEN DateStr(year, month, _day) ELSE <<>>]

\* the month is a key of MONTH_MAP, whose keys are 0..11, read from one
MonthInMapFromZero(month) == month \in 0..11

\* month-1 in MONTH_MAP.keys()
MonthInMap(month) == month - 1 \in 0..11

\* the table that the function builds: the links of its header and its cells
CalendarTable(es, year, month, user) ==
    With2(EntriesOfMonth(es, user, year, month), monthcalendar(year, month),
          LAMBDA database, calendar_array :
        [previous |-> IF month - 1 = 0 THEN <<year - 1, 12>>
                      ELSE <<year, month - 1>>,
         next |-> IF month + 1 = 13 THEN <<year + 1, 1>>
                  ELSE <<year, month + 1>>,
         month |-> month,
         weeks |-> [w \in 1..Len(calendar_array) |->
                      [c \in 1..7 |->
                         CalendarCell(database, year, month,
                                      calendar_array[w][c])]]])

\* gen_calendar that makes a date of its day argument
gen_calendar_of_day(us, es, year, month, day, user) ==
    IF ~MonthInMap(month) THEN Raise("Http404", <<>>)
    ELSE IF day \notin 1..DaysInMonth(year, month) THEN Raise("ValueError", <<>>)
    ELSE IF user \notin DOMAIN us THEN Raise("DoesNotExist", <<>>)
    ELSE Ok(CalendarTable(es, year, month, user))

gen_calendar(us, es, year, month, day, user) ==
    IF ~MonthInMap(month) THEN Raise("Http404", <<>>)
    ELSE IF user \notin DOMAIN us THEN Raise("DoesNotExist", <<>>)
    ELSE Ok(CalendarTable(es, year, month, user))

\* ------------------------------------------------------------------------
\* Responses
\* ------------------------------------------------------------------------

NoCall == [fn |-> "none", start |-> <<>>, end |-> <<>>, done |-> FALSE,
           ret |-> Ok(FALSE)]

NoResponse == [op |-> "none", status |-> "none", body |-> <<>>]

\* HttpResponse(simplejson.dumps(body)): body is the JSON object, key -> value
HttpResponse(op, body) == [op |-> op, status |-> "HttpResponse", body |-> body]

\* the request ends with an exception that no handler code catches
Aborted(op, exc) == [op |-> op, status |-> exc, body |-> <<>>]

\* what a handler did: its response and the table it leaves
Outcome(resp, es, nid) == [response |-> resp, entries |-> es, nextId |-> nid]

\* str(error) of a caught exception
ErrorStr(w) == IF w.exc = "IntegrityError" THEN "IntegrityError: other" ELSE w.exc

\* the message of a caught IntegrityError, with the check of its code left out
IntegrityErrorStr(saved) == ErrorStr(saved)

\* the message of a caught IntegrityError: error[0] == DUPLICATE_ENTRY is told apart
IntegrityErrorMessage(saved) ==
    IF saved.code = DUPLICATE_ENTRY
    THEN "There is a duplicate entry for this value"
    ELSE ErrorStr(saved)

\* request_check that looks at the kind of the request only
request_check_ajax_only(req) == req.is_ajax

\* request_check: Http404 unless the request is AJAX and has a session user
request_check(req) == req.is_ajax /\ req.user_id # 0

\* admin_check: Http404 unless the session has a user id
admin_check(req) == req.user_id # 0

\* ------------------------------------------------------------------------
\* The tail the entry handlers share: the calendar of the entry's month
\* ------------------------------------------------------------------------

\* year, month, day = map(int, form['entry_date'].split("-")); gen_calendar;
\* json_data['success'] = True; json_data['calendar'] = calendar
CalendarReply(op, us, es, nid, req) ==
    With(MapInt(PySplit(req.entry_date, "-")), LAMBDA ymd :
        IF ymd.exc # "" \/ Len(ymd.val) # 3
        THEN Outcome(Aborted(op, "ValueError"), es, nid)
        ELSE With(gen_calendar(us, es, ymd.val[1], ymd.val[2], ymd.val[3],
                               req.user_id), LAMBDA cal :
                 IF cal.exc # "" THEN Outcome(Aborted(op, cal.exc), es, nid)
                 ELSE Outcome(HttpResponse(op, [success |-> TRUE,
                                                calendar |-> cal.val]), es, nid)))

\* ------------------------------------------------------------------------
\* ajax_add_entry
\* ------------------------------------------------------------------------

\* ajax_add_entry with the calendar made from the table as it was before the insert
AddEntryCalendarBefore(us, es, nid, req) ==
    With2(validate_time(req.start_time, req.end_time), SaveNew(es, nid, req),
          LAMBDA valid, saved :
        IF ~request_check(req)
        THEN Outcome(Aborted("ajax_add_entry", "Http404"), es, nid)
        ELSE IF valid.exc # ""
        THEN Outcome(HttpResponse("ajax_add_entry", [error |-> "Date Error"]), es, nid)
        ELSE IF ~valid.val
        THEN Outcome(HttpResponse("ajax_add_entry",
                                  [error |-> "Start time after end time"]), es, nid)
        ELSE IF saved.exc = "IntegrityError"
        THEN Outcome(HttpResponse("ajax_add_entry",
                                  [error |-> IntegrityErrorMessage(saved)]), es, nid)
        ELSE IF saved.exc # ""
        THEN Outcome(Aborted("ajax_add_entry", saved.exc), es, nid)
        ELSE Outcome(CalendarReply("ajax_add_entry", us, es, nid, req).response,
                     saved.entries, saved.nextId))

AddEntry(us, es, nid, req) ==
    With2(validate_time(req.start_time, req.end_time), SaveNew(es, nid, req),
          LAMBDA valid, saved :
        IF ~request_check(req)
        THEN Outcome(Aborted("ajax_add_entry", "Http404"), es, nid)
        ELSE IF valid.exc # ""
        THEN Outcome(HttpResponse("ajax_add_entry", [error |-> "Date Error"]), es, nid)
        ELSE IF ~valid.val
        THEN Outcome(HttpResponse("ajax_add_entry",
                                  [error |-> "Start time after end time"]), es, nid)
        ELSE IF saved.exc = "IntegrityError"
        THEN Outcome(HttpResponse("ajax_add_entry",
                                  [error |-> IntegrityErrorMessage(saved)]), es, nid)
        ELSE IF saved.exc # ""
        THEN Outcome(Aborted("ajax_add_entry", saved.exc), es, nid)
        ELSE CalendarReply("ajax_add_entry", us, saved.entries, saved.nextId, req))

\* ------------------------------------------------------------------------
\* ajax_add_entry in steps, as a server process runs it beside another: the
\* checks of the request, the INSERT, the calendar.  The table is read and
\* written by the INSERT, one statement, and read by the calendar.
\* ------------------------------------------------------------------------

\* a server process: where it is in ajax_add_entry, its request, its response
Worker(pc, req, resp) == [pc |-> pc, req |-> req, response |-> resp]

IdleWorker == Worker("idle", <<>>, NoResponse)

\* what a step of a process did: the process and the table it leaves
WorkerOutcome(w, es, nid) == [worker |-> w, entries |-> es, nextId |-> nid]

\* request_check, then the server-side time validation
AddEntryCheck(req) ==
    With(validate_time(req.start_time, req.end_time), LAMBDA valid :
        IF ~request_check(req)
        THEN Worker("done", req, Aborted("ajax_add_entry", "Http404"))
        ELSE IF valid.exc # ""
        THEN Worker("done", req, HttpResponse("ajax_add_entry", [error |-> "Date Error"]))
        ELSE IF ~valid.val
        THEN Worker("done", req,
                    HttpResponse("ajax_add_entry", [error |-> "Start time after end time"]))
        ELSE Worker("save", req, NoResponse))

\* the INSERT with the IntegrityError left to end the request
AddEntrySaveUncaught(es, nid, w) ==
    With(SaveNew(es, nid, w.req), LAMBDA saved :
        IF saved.exc # ""
        THEN WorkerOutcome(Worker("done", w.req, Aborted("ajax_add_entry", saved.exc)),
                           es, nid)
        ELSE WorkerOutcome(Worker("calendar", w.req, NoResponse),
                           saved.entries, saved.nextId))

\* try: entry = TrackingEntry(**form); entry.save()  except IntegrityError
AddEntrySave(es, nid, w) ==
    With(SaveNew(es, nid, w.req), LAMBDA saved :
        IF saved.exc = "IntegrityError"
        THEN WorkerOutcome(Worker("done", w.req,
                                  HttpResponse("ajax_add_entry",
                                               [error |-> IntegrityErrorMessage(saved)])),
                           es, nid)
        ELSE IF saved.exc # ""
        THEN WorkerOutcome(Worker("done", w.req, Aborted("ajax_add_entry", saved.exc)),
                           es, nid)
        ELSE WorkerOutcome(Worker("calendar", w.req, NoResponse),
                           saved.entries, saved.nextId))

\* the calendar of the entry's month, read from the table as it is by now
AddEntryCalendar(us, es, nid, w) ==
    Worker("done", w.req, CalendarReply("ajax_add_entry", us, es, nid, w.req).response)

\* ------------------------------------------------------------------------
\* ajax_delete_entry
\* ------------------------------------------------------------------------

DeleteEntry(us, es, nid, req) ==
    IF ~request_check(req)
    THEN Outcome(Aborted("ajax_delete_entry", "Http404"), es, nid)
    ELSE IF req.hidden_id = 0
    THEN CalendarReply("ajax_delete_entry", us, es, nid, req)
    ELSE IF req.user_id \notin DOMAIN us
    THEN Outcome(HttpResponse("ajax_delete_entry", [error |-> "DoesNotExist"]), es, nid)
    ELSE CalendarReply("ajax_delete_entry", us, DeleteById(es, req.hidden_id), nid, req)

\* ------------------------------------------------------------------------
\* ajax_change_entry
\* ------------------------------------------------------------------------

ChangeEntry(us, es, nid, req) ==
    With2(validate_time(req.start_time, req.end_time),
          IF req.user_id \notin DOMAIN us THEN Failed("DoesNotExist", 0, es, nid)
          ELSE SaveWithId(es, nid, req.hidden_id, req),
          LAMBDA valid, saved :
        IF ~request_check(req)
        THEN Outcome(Aborted("ajax_change_entry", "Http404"), es, nid)
        ELSE IF valid.exc # ""
        THEN Outcome(HttpResponse("ajax_change_entry", [error |-> "Date Error"]), es, nid)
        ELSE IF ~valid.val
        THEN Outcome(HttpResponse("ajax_change_entry",
                                  [error |-> "Start time after end time"]), es, nid)
        ELSE IF req.hidden_id = 0
        THEN CalendarReply("ajax_change_entry", us, es, nid, req)
        ELSE IF saved.exc # ""
        THEN Outcome(HttpResponse("ajax_change_entry", [error |-> ErrorStr(saved)]),
                     es, nid)
        ELSE CalendarReply("ajax_change_entry", us, saved.entries, saved.nextId, req))

\* ------------------------------------------------------------------------
\* timetracker/views.py : ajax, the first add-entry endpoint
\* ------------------------------------------------------------------------

\* gen_calendar(year, month, day, user='aaron.france@hp.com'): the month is
\* checked, then the user is looked up by id, and the address is no id
ViewsAjaxCalendar(es, nid, req) ==
    With(MapInt(PySplit(req.entry_date, "-")), LAMBDA ymd :
        IF ymd.exc # "" \/ Len(ymd.val) # 3
        THEN Outcome(Aborted("ajax", "ValueError"), es, nid)
        ELSE IF ymd.val[2] - 1 \notin 0..11
        THEN Outcome(Aborted("ajax", "Http404"), es, nid)
        ELSE Outcome(Aborted("ajax", "ValueError"), es, nid))

ViewsAjax(us, es, nid, req) ==
    With4(MakeTime(req.start_time), MakeTime(req.end_time),
          [success |-> FALSE, error |-> "", calendar |-> <<>>],
          SaveNew(es, nid,
                  [entry_date |-> req.entry_date, start_time |-> req.start_time,
                   end_time |-> req.end_time, daytype |-> req.daytype,
                   user_id |-> 1,
                   breaks |-> <<"0", "0", ":", "1", "5", ":", "0", "0">>]),
          LAMBDA s, e, json_data, saved :
        IF ~req.is_ajax THEN Outcome(Aborted("ajax", "Http404"), es, nid)
        ELSE IF s.exc # "" \/ e.exc # ""
        THEN Outcome(Aborted("ajax", "ValueError"), es, nid)
        ELSE IF TimeGreater(s.val, e.val)
        THEN Outcome(HttpResponse("ajax",
                 [json_data EXCEPT !.error = "Start time after end time"]), es, nid)
        ELSE IF saved.exc = "IntegrityError"
        THEN Outcome(HttpResponse("ajax",
                 [json_data EXCEPT !.error = IntegrityErrorMessage(saved)]), es, nid)
        ELSE IF saved.exc # "" THEN Outcome(Aborted("ajax", saved.exc), es, nid)
        ELSE ViewsAjaxCalendar(saved.entries, saved.nextId, req))

\* ------------------------------------------------------------------------
\* mass_holidays
\* ------------------------------------------------------------------------

MidnightStr == <<"0", "0", ":", "0", "0", ":", "0", "0">>

\* the branch of the loop that removes the entry of the date, if there is one
MassHolidayRemove(es, nid, user, date) ==
    With(ParseDate(date), LAMBDA d :
        IF d.exc # "" THEN Failed("abort:ValidationError", 0, es, nid)
        ELSE Written({e \in es : ~(e.user_id = user /\ e.entry_date = d.val)}, nid))

\* the branch of the loop that saves a new entry, or on a duplicate changes the
\* day type of the entry that is there
\* the save branch with the duplicate answered by writing the new entry's
\* fields, times and all, over the entry that is there
MassHolidaySaveOverwrites(es, nid, user, date, daytype) ==
    With2(ParseDate(date),
          SaveNew(es, nid, [user_id |-> user, entry_date |-> date,
                            start_time |-> MidnightStr, end_time |-> MidnightStr,
                            breaks |-> MidnightStr, daytype |-> daytype]),
          LAMBDA d, saved :
        IF saved.exc = "" THEN saved
        ELSE IF saved.exc = "IntegrityError"
        THEN IF saved.code = DUPLICATE_ENTRY
             THEN Written({IF e.user_id = user /\ e.entry_date = d.val
                           THEN [e EXCEPT !.daytype = daytype,
                                          !.start_time = <<0, 0, 0>>,
                                          !.end_time = <<0, 0, 0>>,
                                          !.breaks = <<0, 0, 0>>]
                           ELSE e : e \in es},
                          nid)
             ELSE Failed("abort:Exception", 0, es, nid)
        ELSE Failed(saved.exc, 0, es, nid))

MassHolidaySave(es, nid, user, date, daytype) ==
    With2(ParseDate(date),
          SaveNew(es, nid, [user_id |-> user, entry_date |-> date,
                            start_time |-> MidnightStr, end_time |-> MidnightStr,
                            breaks |-> MidnightStr, daytype |-> daytype]),
          LAMBDA d, saved :
        IF saved.exc = "" THEN saved
        ELSE IF saved.exc = "IntegrityError"
        THEN IF saved.code = DUPLICATE_ENTRY
             THEN Written({IF e.user_id = user /\ e.entry_date = d.val
                           THEN [e EXCEPT !.daytype = daytype] ELSE e : e \in es},
                          nid)
             ELSE Failed("abort:Exception", 0, es, nid)
        ELSE Failed(saved.exc, 0, es, nid))

\* one pass of the loop over holiday_data.items()
MassHolidayItem(es, nid, req, entry) ==
    With(PyInt(entry[1]), LAMBDA key :
        IF key.exc # "" THEN Failed("abort:ValueError", 0, es, nid)
        ELSE IF entry[2] = "empty" \/ entry[2] = ""
        THEN MassHolidayRemove(es, nid, req.target,
                               PyJoin("-", <<req.year, req.month, PyStr(key.val)>>))
        ELSE MassHolidaySave(es, nid, req.target,
                             PyJoin("-", <<req.year, req.month, PyStr(key.val)>>),
                             entry[2]))

\* the loop: items is the dictionary's items in the order the iteration yields
\* them; a return or an exception ends it
RECURSIVE MassHolidayItems(_, _, _)
MassHolidayItems(sofar, req, items) ==
    IF items = <<>> \/ sofar.exc # "" THEN sofar
    ELSE MassHolidayItems(
             MassHolidayItem(sofar.entries, sofar.nextId, req, Head(items)),
             req, Tail(items))

MassHolidays(us, es, nid, req) ==
    With(MassHolidayItems(Written(es, nid), req, req.holiday_data), LAMBDA done :
        IF ~request_check(req) \/ ~admin_check(req)
        THEN Outcome(Aborted("mass_holidays", "Http404"), es, nid)
        ELSE IF done.exc = ""
        THEN Outcome(HttpResponse("mass_holidays", [success |-> TRUE, error |-> ""]),
                     done.entries, done.nextId)
        ELSE IF done.exc \in {"abort:ValueError", "abort:ValidationError",
                              "abort:Exception"}
        THEN Outcome(Aborted("mass_holidays", done.exc), done.entries, done.nextId)
        ELSE Outcome(HttpResponse("mass_holidays",
                                  [success |-> FALSE, error |-> ErrorStr(done)]),
                     done.entries, done.nextId))

\* ------------------------------------------------------------------------
\* delete_user
\* ------------------------------------------------------------------------

\* what the handler did: its response and the ids of the users it deleted
UserOutcome(resp, deleted) == [response |-> resp, deleted |-> deleted]

DeleteUser(us, req) ==
    With2(PyInt(req.target), [success |-> FALSE, error |-> "Missing user"],
          LAMBDA id, json_data :
        IF ~request_check(req) \/ ~admin_check(req)
        THEN UserOutcome(Aborted("delete_user", "Http404"), {})
        ELSE IF req.target = <<>>
        THEN UserOutcome(HttpResponse("delete_user", json_data), {})
        ELSE IF id.exc # ""
        THEN UserOutcome(Aborted("delete_user", "ValueError"), {})
        ELSE IF id.val \notin DOMAIN us
        THEN UserOutcome(HttpResponse("delete_user",
                 [json_data EXCEPT !.error = "User does not exist"]), {})
        ELSE UserOutcome(HttpResponse("delete_user",
                 [json_data EXCEPT !.success = TRUE]), {id.val}))

\* ------------------------------------------------------------------------
\* get_user_data
\* ------------------------------------------------------------------------

\* Tbluser.objects.get(id__exact=request.POST.get('user_id', None)), then the
\* fields of the user as a JSON object; a lookup that fails is not caught
GetUserData(us, req) ==
    With(PyInt(req.target), LAMBDA id :
        IF ~request_check(req) \/ ~admin_check(req)
        THEN Aborted("get_user_data", "Http404")
        ELSE IF req.target = <<>> THEN Aborted("get_user_data", "DoesNotExist")
        ELSE IF id.exc # "" THEN Aborted("get_user_data", "ValueError")
        ELSE IF id.val \notin DOMAIN us THEN Aborted("get_user_data", "DoesNotExist")
        ELSE HttpResponse("get_user_data",
                 [success |-> TRUE, username |-> us[id.val].user_id,
                  user_type |-> us[id.val].user_type,
                  shiftlength |-> us[id.val].shiftlength,
                  holiday_balance |-> us[id.val].holiday_balance]))

\* ------------------------------------------------------------------------
\* add_user
\* ------------------------------------------------------------------------

\* what the handler did: its response and the tables of users and links
AdminOutcome(resp, us, au, nuid) ==
    [response |-> resp, users |-> us, auth |-> au, nextUserId |-> nuid]

\* Tbluser(**data).save(): the start date and the shift length are converted,
\* the login name is unique
SaveNewUser(us, nuid, data) ==
    IF ParseDate(data.start_date).exc # "" \/ ParseTimeField(data.shiftlength).exc # ""
    THEN [exc |-> "ValidationError", code |-> 0, users |-> us, nextUserId |-> nuid]
    ELSE IF \E u \in DOMAIN us : us[u].user_id = data.user_id
    THEN [exc |-> "IntegrityError", code |-> DUPLICATE_ENTRY, users |-> us,
          nextUserId |-> nuid]
    ELSE [exc |-> "", code |-> 0,
          users |-> us @@ (nuid :> [user_id |-> data.user_id,
                                    holiday_balance |-> data.holiday_balance,
                                    user_type |-> data.user_type,
                                    shiftlength |->
                                        ParseTimeField(data.shiftlength).val]),
          nextUserId |-> nuid + 1]

\* add_user: the user is saved; then the authorization record whose id is the
\* session's user id is looked up, Tblauth.objects.get(id=...), and the user
\* is added to it.  A record that is missing raises
\* Tblauthorization.DoesNotExist, which no except clause names.
AddUser(us, au, nuid, req) ==
    With2(SaveNewUser(us, nuid, req.data), [success |-> FALSE, error |-> ""],
          LAMBDA saved, json_data :
        IF ~request_check(req) \/ ~admin_check(req)
        THEN AdminOutcome(Aborted("add_user", "Http404"), us, au, nuid)
        ELSE IF saved.exc = "IntegrityError"
        THEN AdminOutcome(HttpResponse("add_user",
                 [json_data EXCEPT !.error = "Duplicate entry"]), us, au, nuid)
        ELSE IF saved.exc = "ValidationError"
        THEN AdminOutcome(HttpResponse("add_user",
                 [json_data EXCEPT !.error = "Invalid Data."]), us, au, nuid)
        ELSE IF req.user_id \notin DOMAIN au
        THEN AdminOutcome(Aborted("add_user", "DoesNotExist"),
                          saved.users, au, saved.nextUserId)
        ELSE AdminOutcome(HttpResponse("add_user", [json_data EXCEPT !.success = TRUE]),
                          saved.users,
                          [au EXCEPT ![req.user_id].users = @ \cup {nuid}],
                          saved.nextUserId))

\* ------------------------------------------------------------------------
\* Tbluser: the holiday balance and the subordinates
\* ------------------------------------------------------------------------

\* the rows of a set in the order of their ids
RECURSIVE SortedById(_)
SortedById(S) ==
    IF S = {} THEN <<>>
    ELSE LET first == CHOOSE e \in S : \A o \in S : e.id <= o.id
         IN  <<first>> \o SortedById(S \ {first})

RECURSIVE SortedIds(_)
SortedIds(S) ==
    IF S = {} THEN <<>>
    ELSE LET first == CHOOSE i \in S : \A o \in S : i <= o
         IN  <<first>> \o SortedIds(S \ {first})

\* a day of work on a public holiday sets the balance instead of adding to it
BalanceStepAssigns(balance, daytype) ==
    IF daytype = "HOLIS" THEN balance - 1
    ELSE IF daytype = "PUWRK" THEN 2
    ELSE IF daytype = "RETRN" THEN balance - 1
    ELSE balance

\* a day of work on a public holiday earns one day instead of two
BalanceStepByOne(balance, daytype) ==
    IF daytype = "HOLIS" THEN balance - 1
    ELSE IF daytype = "PUWRK" THEN balance + 1
    ELSE IF daytype = "RETRN" THEN balance - 1
    ELSE balance

\* a returned day is given back instead of taken
BalanceStepReturnAdds(balance, daytype) ==
    IF daytype = "HOLIS" THEN balance - 1
    ELSE IF daytype = "PUWRK" THEN balance + 2
    ELSE IF daytype = "RETRN" THEN balance + 1
    ELSE balance

\* one entry's effect on the running balance

BalanceStep(balance, daytype) ==
    IF daytype = "HOLIS" THEN balance - 1
    ELSE IF daytype = "PUWRK" THEN balance + 2
    ELSE IF daytype = "RETRN" THEN balance - 1
    ELSE balance

RECURSIVE BalanceFold(_, _)
BalanceFold(balance, tracking_days) ==
    IF tracking_days = <<>> THEN balance
    ELSE BalanceFold(BalanceStep(balance, Head(tracking_days).daytype),
                     Tail(tracking_days))

\* the entries of the user, whatever their year
EntriesOfUser(es, user, year) ==
    {e \in es : e.user_id = user}

EntriesOfYear(es, user, year) ==
    {e \in es : e.user_id = user /\ e.entry_date[1] = year}

\* Tbluser.get_holiday_balance(year)
get_holiday_balance(us, es, user, year) ==
    BalanceFold(us[user].holiday_balance, SortedById(EntriesOfYear(es, user, year)))

\* Tbluser.get_subordinates(): the users linked to this one as their admin
get_subordinates(us, au, user) ==
    UNION {au[a].users : a \in {b \in DOMAIN au : au[b].admin = user}} \cap DOMAIN us

Minutes(t) == t[1] * 60 + t[2]

\* the time difference with the break left in the worked time
time_difference_with_break(us, e) ==
    (Minutes(e.end_time) - Minutes(e.start_time)) - Minutes(us[e.user_id].shiftlength)

\* TrackingEntry.time_difference(): worked time less the shift length, in minutes
time_difference(us, e) ==
    (Minutes(e.end_time) - Minutes(e.start_time) - Minutes(e.breaks))
        - Minutes(us[e.user_id].shiftlength)

\* overtime from the shift length on, instead of beyond it
is_overtime_from_shift(us, e) ==
    Minutes(e.end_time) - Minutes(e.start_time) - Minutes(e.breaks)
        >= Minutes(us[e.user_id].shiftlength)

\* TrackingEntry.is_overtime(): the worked time exceeds the shift length
is_overtime(us, e) ==
    Minutes(e.end_time) - Minutes(e.start_time) - Minutes(e.breaks)
        > Minutes(us[e.user_id].shiftlength)

RECURSIVE SumDifference(_, _)
SumDifference(us, S) ==
    IF S = {} THEN 0
    ELSE LET e == CHOOSE x \in S : TRUE
         IN  time_difference(us, e) + SumDifference(us, S \ {e})

\* Tbluser.get_total_balance(ret='flo', year=year, month=month)
get_total_balance(us, es, user, year, month) ==
    SumDifference(us, EntriesOfMonth(es, user, year, month))

\* ------------------------------------------------------------------------
\* reporting/views.py
\* ------------------------------------------------------------------------

\* timetracker.utils.decorators.admin_check: the session user is an administrator
report_admin_check(us, req) ==
    /\ req.user_id \in DOMAIN us
    /\ us[req.user_id].user_type \in {"SUPER", "ADMIN", "TEAML"}

\* the file the endpoint sends: the byte-order mark, the rows, the file name
CsvResponse(op, header, rows, filename) ==
    [op |-> op, status |-> "HttpResponse",
     body |-> [bom |-> TRUE, header |-> header, rows |-> rows, filename |-> filename]]

\* MONTH_MAP[n][1] for n in range(0, 12)
MonthColumns == [n \in 1..12 |-> n]

\* TrackingEntry.headings()
Headings == <<"user", "entry_date", "start_time", "end_time", "breaks", "daytype">>

\* TrackingEntry.display_as_csv()
display_as_csv(e) ==
    <<e.user_id, e.entry_date, e.start_time, e.end_time, e.breaks, e.daytype>>

\* one row per entry of a queryset
EntryRows(S) ==
    With(SortedById(S), LAMBDA q : [i \in 1..Len(q) |-> display_as_csv(q[i])])

RECURSIVE Concat(_)
Concat(qs) == IF qs = <<>> THEN <<>> ELSE Head(qs) \o Concat(Tail(qs))

\* download_all_holiday_data without the look at the span of control
DownloadAllHolidayDataOfAnyone(us, au, es, req) ==
    IF ~report_admin_check(us, req) THEN Aborted("download_all_holiday_data", "Http404")
    ELSE IF req.who = 0 THEN Aborted("download_all_holiday_data", "Http404")
    ELSE CsvResponse("download_all_holiday_data", Headings,
                     EntryRows({e \in es : e.user_id = req.who}),
                     <<"AllHolidayData", req.who>>)

DownloadAllHolidayData(us, au, es, req) ==
    IF ~report_admin_check(us, req) THEN Aborted("download_all_holiday_data", "Http404")
    ELSE IF req.who = 0 THEN Aborted("download_all_holiday_data", "Http404")
    ELSE IF req.who \notin get_subordinates(us, au, req.user_id)
    THEN Aborted("download_all_holiday_data", "Http404")
    ELSE CsvResponse("download_all_holiday_data", Headings,
                     EntryRows({e \in es : e.user_id = req.who}),
                     <<"AllHolidayData", req.who>>)

Yearmonthhol(us, au, es, req) ==
    IF ~report_admin_check(us, req) THEN Aborted("yearmonthhol", "Http404")
    ELSE With(SortedIds(get_subordinates(us, au, req.user_id)), LAMBDA subs :
             CsvResponse("yearmonthhol", Headings,
                         Concat([i \in 1..Len(subs) |->
                                    EntryRows(EntriesOfMonth(es, subs[i], req.year,
                                                             req.month))]),
                         <<"HolidayData", req.year, req.month>>))

RECURSIVE SumSeq(_)
SumSeq(q) == IF q = <<>> THEN 0 ELSE Head(q) + SumSeq(Tail(q))

OtByMonth(us, au, es, req) ==
    IF ~report_admin_check(us, req) THEN Aborted("ot_by_month", "Http404")
    ELSE IF req.month - 1 \notin -12..11 THEN Aborted("ot_by_month", "IndexError")
    ELSE With(SortedIds(get_subordinates(us, au, req.user_id)), LAMBDA subs :
         With([i \in 1..Len(subs) |->
                  get_total_balance(us, es, subs[i], req.year, req.month)],
              LAMBDA balances :
             CsvResponse("ot_by_month",
                         <<"Name", "Team", ((req.month - 1) % 12) + 1>>,
                         [i \in 1..Len(subs) |-> <<subs[i], "process", balances[i]>>]
                             \o << <<"Total", "Total", SumSeq(balances)>> >>,
                         <<"OT_By_Month", req.year, req.month>>)))

\* "%.2f" % balance if balance != 0.0 else "-"
BalanceCell(balance) == IF balance # 0 THEN <<"%.2f", balance>> ELSE <<"-">>

OtByYearRow(us, es, user, year) ==
    <<user, "process">> \o
    [month \in 1..12 |-> BalanceCell(get_total_balance(us, es, user, year, month))]

OtByYear(us, au, es, req) ==
    IF ~report_admin_check(us, req) THEN Aborted("ot_by_year", "Http404")
    ELSE With(SortedIds(get_subordinates(us, au, req.user_id)), LAMBDA subs :
             \* the file name reads the loop variable month, which is unbound
             \* when there was no subordinate to loop over
             IF subs = <<>> THEN Aborted("ot_by_year", "NameError")
             ELSE CsvResponse("ot_by_year",
                      <<"Name", "Team">> \o MonthColumns,
                      [i \in 1..Len(subs) |-> OtByYearRow(us, es, subs[i], req.year)]
                          \o << <<"Total", "Total">> \o
                                [month \in 1..12 |->
                                    <<"%.2f",
                                      SumSeq([i \in 1..Len(subs) |->
                                                get_total_balance(us, es, subs[i],
                                                                  req.year, month)])>>] >>,
                      <<"OT_By_Year", req.year, 12>>))

HolidaysCount(es, user, year, month) ==
    Cardinality({e \in EntriesOfMonth(es, user, year, month) : e.daytype = "HOLIS"})

\* row.append(e) for each month, then row.append([total, holiday_balance])
HolidaysRow(us, es, user, year) ==
    <<user>> \o [month \in 1..12 |-> HolidaysCount(es, user, year, month)]
        \o << <<SumSeq([month \in 1..12 |-> HolidaysCount(es, user, year, month)]),
                us[user].holiday_balance>> >>

HolidaysForYearmonth(us, au, es, req) ==
    IF ~report_admin_check(us, req) THEN Aborted("holidays_for_yearmonth", "Http404")
    ELSE IF req.year = 0 THEN Aborted("holidays_for_yearmonth", "Http404")
    ELSE With(SortedIds(get_subordinates(us, au, req.user_id)), LAMBDA subs :
             CsvResponse("holidays_for_yearmonth",
                         <<"Name">> \o MonthColumns \o <<"Used", "Remaining">>,
                         [i \in 1..Len(subs) |-> HolidaysRow(us, es, subs[i], req.year)],
                         <<"Holidays_for_year", req.year>>))

\* ------------------------------------------------------------------------
\* Bounds and inputs
\* ------------------------------------------------------------------------

\* the entry ids the table hands out before the model stops inserting
MaxId == 2

\* the entries per holiday_data dictionary
MaxItems == 2

\* the entry ids the table hands out in the holiday-balance specification
MaxHolidayId == 3

\* the users that own entries
UserIds == {1, 2}

ShiftLength == <<7, 45, 0>>

\* user 1 administers user 2; user 3 is a team leader with nobody linked
InitialUsers ==
    (1 :> [user_id |-> "test.manager", holiday_balance |-> 20, user_type |-> "ADMIN",
           shiftlength |-> ShiftLength])
    @@ (2 :> [user_id |-> "test.user", holiday_balance |-> 20, user_type |-> "RUSER",
              shiftlength |-> ShiftLength])
    @@ (3 :> [user_id |-> "test.teamlead", holiday_balance |-> 20, user_type |-> "TEAML",
              shiftlength |-> ShiftLength])

\* the id the Tbluser table hands out next
FirstNewUserId == 4

\* one authorization record, whose id is 1: user 1 is the admin of user 2
InitialAuth == (1 :> [admin |-> 1, users |-> {2}])

\* no server process is inside a request
NoWorkers == <<>>

FormDates == {DateStr(2012, 1, 1), DateStr(2012, 1, 2)}

BadDate == DateStr(2012, 13, 1)

BreaksStr == <<"0", "0", ":", "1", "5", ":", "0", "0">>

\* (start_time, end_time, daytype) with start before end
GoodFields == { <<TimeStr(9, 0), TimeStr(17, 0), "WKDAY">>,
                <<TimeStr(9, 0), TimeStr(17, 0), "HOLIS">> }

\* start after end, start equal to end, a malformed time
BadFields == { <<TimeStr(17, 0), TimeStr(9, 0), "WKDAY">>,
               <<TimeStr(9, 0), TimeStr(9, 0), "WKDAY">>,
               <<TimeStr(9, 0), <<"1", "7", ":", "x", "0">>, "WKDAY">> }

Form(u, d, f, h) ==
    [is_ajax |-> TRUE, user_id |-> u, entry_date |-> d, start_time |-> f[1],
     end_time |-> f[2], daytype |-> f[3], breaks |-> BreaksStr, hidden_id |-> h]

PlainForm == Form(1, DateStr(2012, 1, 1), <<TimeStr(9, 0), TimeStr(17, 0), "WKDAY">>, 0)

\* a request that is not AJAX, and one without a session
RejectedForms == {[PlainForm EXCEPT !.is_ajax = FALSE], [PlainForm EXCEPT !.user_id = 0]}

AddRequests ==
    {Form(u, d, f, 0) : u \in UserIds, d \in FormDates, f \in GoodFields}
    \cup {Form(1, d, f, 0) : d \in FormDates, f \in BadFields}
    \cup {[PlainForm EXCEPT !.entry_date = BadDate]}
    \cup RejectedForms

ChangeRequests ==
    {Form(u, d, f, h) : u \in UserIds, d \in FormDates, f \in GoodFields, h \in 1..MaxId}
    \cup {Form(1, DateStr(2012, 1, 1), f, 1) : f \in BadFields}
    \cup {[PlainForm EXCEPT !.entry_date = d, !.hidden_id = h] :
              d \in {BadDate, DateStr(2012, 1, 1)}, h \in {0, 1}}
    \cup RejectedForms

DeleteRequests ==
    {[is_ajax |-> TRUE, user_id |-> u, entry_date |-> d, hidden_id |-> h] :
         u \in UserIds, d \in {DateStr(2012, 1, 1)}, h \in 0..MaxId}
    \cup {[is_ajax |-> TRUE, user_id |-> 1, entry_date |-> BadDate, hidden_id |-> 1],
          [is_ajax |-> FALSE, user_id |-> 1, entry_date |-> BadDate, hidden_id |-> 1],
          [is_ajax |-> TRUE, user_id |-> 0, entry_date |-> BadDate, hidden_id |-> 1]}

ViewsAjaxRequests == {r \in AddRequests : r.user_id = 1}

HolidayValues == {"HOLIS", "empty"}

HolidayKeys == {<<"1">>, <<"2">>}

\* the items of a holiday_data dictionary of n keys, in any order of iteration
RECURSIVE ItemsOfLength(_, _, _)
ItemsOfLength(n, keys, values) ==
    IF n = 0 THEN {<<>>}
    ELSE {Append(q, <<k, v>>) :
              q \in ItemsOfLength(n - 1, keys, values),
              k \in keys, v \in values}

HolidayItems(keys, values) ==
    {q \in UNION {ItemsOfLength(n, keys, values) : n \in 1..MaxItems} :
        \A i, j \in 1..Len(q) : i # j => q[i][1] # q[j][1]}

MassRequest(s, u, y, m, q) ==
    [is_ajax |-> TRUE, user_id |-> s, target |-> u, year |-> PyStr(y),
     month |-> PyStr(m), holiday_data |-> q]

MassRequests ==
    {MassRequest(1, 2, 2012, 1, q) : q \in HolidayItems(HolidayKeys, HolidayValues)}
    \cup {MassRequest(1, 2, 2012, 13, << <<k, "HOLIS">> >>) : k \in HolidayKeys}
    \cup {MassRequest(1, 2, 2012, 1, << <<k, "HOLIS">> >>) : k \in {<<"x">>}}
    \cup {MassRequest(0, 2, 2012, 1, << <<k, "HOLIS">> >>) : k \in HolidayKeys}

ReportRequests ==
    {[user_id |-> u, year |-> y, month |-> 1, who |-> 2] :
         u \in {0, 1, 2, 3}, y \in {0, 2012}}
    \cup {[user_id |-> 1, year |-> 2012, month |-> m, who |-> w] :
              m \in {1, 14}, w \in {0, 1}}

\* the holiday-balance specification: one user's January days of each type
BaseBalances == {0, 20}

BalanceDates == {DateStr(2012, 1, 1), DateStr(2012, 1, 2), DateStr(2012, 1, 3)}

BalanceTypes == {"HOLIS", "PUWRK", "RETRN"}

BalanceAddRequests ==
    {Form(2, d, <<TimeStr(9, 0), TimeStr(17, 0), k>>, 0) :
         d \in BalanceDates, k \in BalanceTypes}

BalanceDeleteRequests ==
    {[is_ajax |-> TRUE, user_id |-> 2, entry_date |-> DateStr(2012, 1, 1),
      hidden_id |-> h] : h \in 1..MaxHolidayId}

BalanceMassRequests ==
    {MassRequest(1, 2, 2012, 1, << <<k, v>> >>) :
         k \in {<<"3">>}, v \in BalanceTypes \cup {"empty"}}

\* the entry ids the table hands out in the specification of the balance's frame
MaxFrameId == 3

\* the holiday balance among other users' and other years' entries
FrameYears == {2011, 2012}

FrameDates == {DateStr(2011, 12, 31), DateStr(2012, 1, 1)}

FrameAddRequests ==
    {Form(u, d, <<TimeStr(9, 0), TimeStr(17, 0), k>>, 0) :
         u \in UserIds, d \in FrameDates, k \in {"HOLIS", "PUWRK"}}

FrameDeleteRequests ==
    {[is_ajax |-> TRUE, user_id |-> u, entry_date |-> DateStr(2012, 1, 1),
      hidden_id |-> h] : u \in UserIds, h \in {1}}

\* the entry ids the table hands out in the specification of the entry methods
MaxOvertimeId == 2

\* the shift lengths of the entries' owner
ShiftLengths == {ShiftLength, <<8, 0, 0>>}

\* the end times of the entries, all starting 09:00 with a break of 00:15
OvertimeEnds ==
    {TimeStr(9, 45), TimeStr(14, 0), TimeStr(16, 44), TimeStr(16, 45), TimeStr(16, 46),
     TimeStr(17, 0), TimeStr(18, 0), TimeStr(18, 1), TimeStr(19, 0)}

OvertimeAddRequests ==
    {Form(2, d, <<TimeStr(9, 0), end, "WKDAY">>, 0) : d \in FormDates, end \in OvertimeEnds}

OvertimeDeleteRequests ==
    {[is_ajax |-> TRUE, user_id |-> 2, entry_date |-> DateStr(2012, 1, 1),
      hidden_id |-> h] : h \in 1..MaxOvertimeId}

\* the entry ids the table hands out in the specification of the calendar
MaxCalendarId == 2

\* the arguments of gen_calendar: a year whose February starts on a Monday, a
\* leap year and a century year that is none; the months around 1..12; a day
\* that every month has and one that February has not; two users and an id
\* that no user has
CalendarYears == {2010, 2012, 2100}

CalendarMonths == 0..13

CalendarDays == {1, 31}

CalendarUsers == {1, 2, 9}

CalendarDates == {DateStr(2012, 1, 1), DateStr(2012, 1, 2), DateStr(2012, 2, 29)}

CalendarAddRequests ==
    {Form(u, d, <<TimeStr(9, 0), TimeStr(17, 0), "WKDAY">>, 0) :
         u \in UserIds, d \in CalendarDates}

CalendarDeleteRequests ==
    {[is_ajax |-> TRUE, user_id |-> u, entry_date |-> DateStr(2012, 1, 1),
      hidden_id |-> h] : u \in {1}, h \in 1..MaxCalendarId}

\* the entry ids the table hands out in the specification of the user handlers
MaxUsersId == 2

\* the POST of delete_user: the id of a user, an id that no user has, no id,
\* and a value that is no number; sent by the administrator or the team leader
DeleteUserTargets == {<<"2">>, <<"3">>, <<"9">>, <<>>, <<"x">>}

DeleteUserRequests ==
    {[is_ajax |-> TRUE, user_id |-> s, target |-> t] :
         s \in {1, 3}, t \in DeleteUserTargets}
    \cup {[is_ajax |-> FALSE, user_id |-> 1, target |-> <<"2">>],
          [is_ajax |-> TRUE, user_id |-> 0, target |-> <<"2">>]}

UsersAddRequests ==
    {Form(u, d, <<TimeStr(9, 0), TimeStr(17, 0), "WKDAY">>, 0) :
         u \in UserIds, d \in FormDates}
    \cup RejectedForms

UsersChangeRequests ==
    {Form(u, d, <<TimeStr(9, 0), TimeStr(17, 0), "HOLIS">>, 1) :
         u \in UserIds, d \in FormDates}
    \cup {[r EXCEPT !.hidden_id = 1, !.daytype = "HOLIS"] : r \in RejectedForms}

UsersDeleteRequests ==
    {[is_ajax |-> a, user_id |-> u, entry_date |-> DateStr(2012, 1, 1),
      hidden_id |-> 1] : a \in BOOLEAN, u \in {0, 1, 2}}

UsersMassRequests ==
    {MassRequest(s, 2, 2012, 1, << <<k, v>> >>) :
         s \in {0, 1}, k \in {<<"1">>}, v \in HolidayValues}
    \cup {[MassRequest(1, 2, 2012, 1, << <<k, "HOLIS">> >>) EXCEPT !.is_ajax = FALSE] :
              k \in {<<"1">>}}

\* the entry ids the table hands out in the specification of mass_holidays
MaxMassId == 2

\* a day type and the two ways of naming no day type
MassValues == {"HOLIS", "empty", ""}

\* entries of user 2 with working times, for mass_holidays to find
MassAddRequests ==
    {Form(2, d, <<TimeStr(9, 0), TimeStr(17, 0), "WKDAY">>, 0) : d \in FormDates}

\* holiday_data of one or two days of January 2012 for user 2; then data whose
\* second item fails after the first was processed: the 31st of February to
\* save and to remove, and a key that is no number; then a request without a
\* session
MassHolidayRequests ==
    {MassRequest(1, 2, 2012, 1, q) : q \in HolidayItems(HolidayKeys, MassValues)}
    \cup {MassRequest(1, 2, 2012, 2, << <<(<<"1">>), "HOLIS">>, <<(<<"3", "1">>), v>> >>) :
              v \in {"HOLIS", "empty"}}
    \cup {MassRequest(1, 2, 2012, 1, << <<(<<"1">>), v>>, <<(<<"x">>), "HOLIS">> >>) :
              v \in {"HOLIS", "empty"}}
    \cup {MassRequest(0, 2, 2012, 1, << <<(<<"1">>), "HOLIS">> >>)}

\* the entry ids the table hands out in the specification of the admin handlers
MaxAdminId == 1

\* the user ids the Tbluser table hands out in the specification of the admin
\* handlers
MaxUserId == 4

\* the authorization record of admin 1 has the admin's id, or another user's
AuthTables == {InitialAuth, (3 :> [admin |-> 1, users |-> {2}])}

\* the sessions of the administrator, the regular user and the team leader
AdminSessions == {1, 2, 3}

\* the POST of get_user_data: the id of a user, an id that no user has, no id
AdminGetRequests ==
    {[is_ajax |-> TRUE, user_id |-> s, target |-> t] :
         s \in AdminSessions, t \in {<<"2">>, <<"9">>, <<>>}}
    \cup {[is_ajax |-> TRUE, user_id |-> 0, target |-> <<"2">>]}

AdminDeleteRequests ==
    {[is_ajax |-> TRUE, user_id |-> s, target |-> t] :
         s \in AdminSessions, t \in {<<"2">>, <<"3">>}}
    \cup {[is_ajax |-> TRUE, user_id |-> 0, target |-> <<"2">>]}

\* the POST of add_user: a new login name, one that is taken, and a start
\* date that is none
NewUserData ==
    {[user_id |-> "new_test", user_type |-> "RUSER", start_date |-> DateStr(2012, 1, 1),
      shiftlength |-> <<"0", "7", ":", "4", "5", ":", "0", "0">>, holiday_balance |-> 20],
     [user_id |-> "test.user", user_type |-> "RUSER", start_date |-> DateStr(2012, 1, 1),
      shiftlength |-> <<"0", "7", ":", "4", "5", ":", "0", "0">>, holiday_balance |-> 20],
     [user_id |-> "new_test", user_type |-> "RUSER", start_date |-> BadDate,
      shiftlength |-> <<"0", "7", ":", "4", "5", ":", "0", "0">>, holiday_balance |-> 20]}

AddUserRequests ==
    {[is_ajax |-> TRUE, user_id |-> s, data |-> d] : s \in AdminSessions, d \in NewUserData}
    \cup {[is_ajax |-> a, user_id |-> s, data |-> d] :
              a \in {FALSE}, s \in {0, 1}, d \in NewUserData}

AdminMassRequests ==
    {MassRequest(s, u, 2012, 1, << <<k, v>> >>) :
         s \in AdminSessions, u \in {1, 2}, k \in {<<"1">>}, v \in HolidayValues}

AdminEntryRequests ==
    {Form(u, DateStr(2012, 1, 1), <<TimeStr(9, 0), TimeStr(17, 0), "WKDAY">>, 0) :
         u \in UserIds}

\* the server processes that run ajax_add_entry side by side
Procs == {1, 2}

\* the requests of the processes: two dates of user 2, two sets of fields that
\* differ in every field, and one with start after end
ConcurrentFields == { <<TimeStr(9, 0), TimeStr(17, 0), "WKDAY">>,
                      <<TimeStr(10, 0), TimeStr(18, 0), "HOLIS">>,
                      <<TimeStr(17, 0), TimeStr(9, 0), "WKDAY">> }

ConcurrentRequests == {Form(2, d, f, 0) : d \in FormDates, f \in ConcurrentFields}

\* ------------------------------------------------------------------------
\* Actions: one per request handler.  The server takes one request at a
\* time: a handler runs when no response is pending, and the response it
\* returns is sent before the next request is taken.
\* ------------------------------------------------------------------------

Idle == response = NoResponse

\* a handler that may write entries; cap is the last id the model lets the
\* table hand out
Apply(out, cap) ==
    /\ Idle
    /\ With(out, LAMBDA o :
          /\ o.nextId <= cap + 1
          /\ response' = o.response
          /\ entries' = o.entries
          /\ nextId' = o.nextId)
    /\ UNCHANGED <<users, auth, call, nextUserId, workers>>

\* a handler that only reads
Report(resp) ==
    /\ Idle
    /\ response' = resp
    /\ UNCHANGED <<users, auth, entries, nextId, call, nextUserId, workers>>

ajax_add_entry(req, cap) == Apply(AddEntry(users, entries, nextId, req), cap)

ajax_change_entry(req, cap) == Apply(ChangeEntry(users, entries, nextId, req), cap)

ajax_delete_entry(req, cap) == Apply(DeleteEntry(users, entries, nextId, req), cap)

ajax(req, cap) == Apply(ViewsAjax(users, entries, nextId, req), cap)

mass_holidays(req, cap) == Apply(MassHolidays(users, entries, nextId, req), cap)

download_all_holiday_data(req) ==
    Report(DownloadAllHolidayData(users, auth, entries, req))

yearmonthhol(req) == Report(Yearmonthhol(users, auth, entries, req))

\* ot_by_month with each computed balance saved on its user
ot_by_month_saving(req) ==
    /\ Idle
    /\ response' = OtByMonth(users, auth, entries, req)
    /\ users' = [u \in DOMAIN users |->
                    IF /\ response'.status = "HttpResponse"
                       /\ u \in get_subordinates(users, auth, req.user_id)
                    THEN [users[u] EXCEPT !.holiday_balance =
                             get_total_balance(users, entries, u, req.year, req.month)]
                    ELSE users[u]]
    /\ UNCHANGED <<auth, entries, nextId, call, nextUserId, workers>>

ot_by_month(req) == Report(OtByMonth(users, auth, entries, req))

ot_by_year(req) == Report(OtByYear(users, auth, entries, req))

holidays_for_yearmonth(req) == Report(HolidaysForYearmonth(users, auth, entries, req))

\* delete_user; user.delete() takes the user's entries and links with it
delete_user(req) ==
    /\ Idle
    /\ With(DeleteUser(users, req), LAMBDA out :
          /\ response' = out.response
          /\ users' = [u \in DOMAIN users \ out.deleted |-> users[u]]
          /\ auth' = [a \in {b \in DOMAIN auth : auth[b].admin \notin out.deleted} |->
                          [auth[a] EXCEPT !.users = @ \ out.deleted]]
          /\ entries' = {e \in entries : e.user_id \notin out.deleted})
    /\ UNCHANGED <<nextId, call, nextUserId, workers>>

\* a call of Tbluser.get_holiday_balance(year), as the views and the tests make it
holiday_balance_call(user, year) ==
    Report([op |-> "get_holiday_balance", status |-> "value",
            body |-> [user |-> user, year |-> year,
                      balance |-> get_holiday_balance(users, entries, user, year)]])

\* a call of entry.time_difference() on a stored entry
time_difference_call(e) ==
    Report([op |-> "time_difference", status |-> "value",
            body |-> [id |-> e.id, value |-> time_difference(users, e)]])

\* a call of entry.is_overtime() on a stored entry
is_overtime_call(e) ==
    Report([op |-> "is_overtime", status |-> "value",
            body |-> [id |-> e.id, value |-> is_overtime(users, e)]])

\* a call of gen_calendar(year, month, day, user=user) from a view or a test
gen_calendar_call(year, month, day, user) ==
    With(gen_calendar(users, entries, year, month, day, user), LAMBDA cal :
        Report([op |-> "gen_calendar",
                status |-> IF cal.exc = "" THEN "value" ELSE cal.exc,
                body |-> [year |-> year, month |-> month, day |-> day,
                          user |-> user, calendar |-> cal.val]]))

get_user_data(req) == Report(GetUserData(users, req))

\* add_user; cap is the last id the model lets the Tbluser table hand out
add_user(req, cap) ==
    /\ Idle
    /\ With(AddUser(users, auth, nextUserId, req), LAMBDA out :
          /\ out.nextUserId <= cap + 1
          /\ response' = out.response
          /\ users' = out.users
          /\ auth' = out.auth
          /\ nextUserId' = out.nextUserId)
    /\ UNCHANGED <<entries, nextId, call, workers>>

\* a process takes an add-entry request and checks it
add_entry_receive(p, req) ==
    /\ workers[p].pc = "idle"
    /\ workers' = [workers EXCEPT ![p] = AddEntryCheck(req)]
    /\ UNCHANGED <<users, auth, entries, nextId, response, call, nextUserId>>

\* a process runs its INSERT
add_entry_save(p) ==
    /\ workers[p].pc = "save"
    /\ With(AddEntrySave(entries, nextId, workers[p]), LAMBDA out :
          /\ workers' = [workers EXCEPT ![p] = out.worker]
          /\ entries' = out.entries
          /\ nextId' = out.nextId)
    /\ UNCHANGED <<users, auth, response, call, nextUserId>>

\* a process makes the calendar and has its response
add_entry_calendar(p) ==
    /\ workers[p].pc = "calendar"
    /\ workers' = [workers EXCEPT ![p] =
                      AddEntryCalendar(users, entries, nextId, workers[p])]
    /\ UNCHANGED <<users, auth, entries, nextId, response, call, nextUserId>>

\* the response goes out to the client
send_response ==
    /\ ~Idle
    /\ response' = NoResponse
    /\ UNCHANGED <<users, auth, entries, nextId, call, nextUserId, workers>>

\* a call of validate_time(start, end)
validate_time_call ==
    /\ call.fn = "validate_time"
    /\ ~call.done
    /\ call' = [call EXCEPT !.done = TRUE,
                            !.ret = validate_time(call.start, call.end)]
    /\ UNCHANGED <<users, auth, entries, nextId, response, nextUserId, workers>>

\* ------------------------------------------------------------------------
\* Specifications
\* ------------------------------------------------------------------------

\* the request handlers over the store
Init ==
    /\ users = InitialUsers
    /\ auth = InitialAuth
    /\ entries = {}
    /\ nextId = 1
    /\ response = NoResponse
    /\ call = NoCall
    /\ nextUserId = FirstNewUserId
    /\ workers = NoWorkers

Next ==
    \/ \E req \in AddRequests : ajax_add_entry(req, MaxId)
    \/ \E req \in ChangeRequests : ajax_change_entry(req, MaxId)
    \/ \E req \in DeleteRequests : ajax_delete_entry(req, MaxId)
    \/ \E req \in ViewsAjaxRequests : ajax(req, MaxId)
    \/ \E req \in MassRequests : mass_holidays(req, MaxId)
    \/ \E req \in ReportRequests : download_all_holiday_data(req)
    \/ \E req \in ReportRequests : yearmonthhol(req)
    \/ \E req \in ReportRequests : ot_by_month(req)
    \/ \E req \in ReportRequests : ot_by_year(req)
    \/ \E req \in ReportRequests : holidays_for_yearmonth(req)
    \/ \E user \in DOMAIN users, year \in {2012} : holiday_balance_call(user, year)
    \/ send_response

Spec == Init /\ [][Next]_vars

\* the utility functions, each called once on inputs drawn from UtilTimes
InitUtil ==
    /\ users = InitialUsers
    /\ auth = InitialAuth
    /\ entries = {}
    /\ nextId = 1
    /\ response = NoResponse
    /\ call \in {[fn |-> "validate_time", start |-> s, end |-> e, done |-> FALSE,
                  ret |-> Ok(FALSE)] : s \in UtilTimes, e \in UtilTimes}
    /\ nextUserId = FirstNewUserId
    /\ workers = NoWorkers

NextUtil == validate_time_call

SpecUtil == InitUtil /\ [][NextUtil]_vars

\* the holiday balance of one user over the entries the handlers leave
InitBalance ==
    /\ users \in {[InitialUsers EXCEPT ![2].holiday_balance = b] : b \in BaseBalances}
    /\ auth = InitialAuth
    /\ entries = {}
    /\ nextId = 1
    /\ response = NoResponse
    /\ call = NoCall
    /\ nextUserId = FirstNewUserId
    /\ workers = NoWorkers

NextBalance ==
    \/ \E req \in BalanceAddRequests : ajax_add_entry(req, MaxHolidayId)
    \/ \E req \in BalanceDeleteRequests : ajax_delete_entry(req, MaxHolidayId)
    \/ \E req \in BalanceMassRequests : mass_holidays(req, MaxHolidayId)
    \/ \E year \in {2012} : holiday_balance_call(2, year)
    \/ send_response

SpecBalance == InitBalance /\ [][NextBalance]_vars

\* the holiday balance of each user and year over entries of two users and
\* two years
NextFrame ==
    \/ \E req \in FrameAddRequests : ajax_add_entry(req, MaxFrameId)
    \/ \E req \in FrameDeleteRequests : ajax_delete_entry(req, MaxFrameId)
    \/ \E user \in UserIds, year \in FrameYears : holiday_balance_call(user, year)
    \/ send_response

SpecFrame == Init /\ [][NextFrame]_vars

\* the methods of the entries that the add and delete handlers leave
InitOvertime ==
    /\ users \in {[InitialUsers EXCEPT ![2].shiftlength = s] : s \in ShiftLengths}
    /\ auth = InitialAuth
    /\ entries = {}
    /\ nextId = 1
    /\ response = NoResponse
    /\ call = NoCall
    /\ nextUserId = FirstNewUserId
    /\ workers = NoWorkers

NextOvertime ==
    \/ \E req \in OvertimeAddRequests : ajax_add_entry(req, MaxOvertimeId)
    \/ \E req \in OvertimeDeleteRequests : ajax_delete_entry(req, MaxOvertimeId)
    \/ \E e \in entries : time_difference_call(e)
    \/ \E e \in entries : is_overtime_call(e)
    \/ send_response

SpecOvertime == InitOvertime /\ [][NextOvertime]_vars

\* gen_calendar over the tables that the add and delete handlers leave
NextCalendar ==
    \/ \E req \in CalendarAddRequests : ajax_add_entry(req, MaxCalendarId)
    \/ \E req \in CalendarDeleteRequests : ajax_delete_entry(req, MaxCalendarId)
    \/ \E year \in CalendarYears, month \in CalendarMonths,
          day \in CalendarDays, user \in CalendarUsers :
              gen_calendar_call(year, month, day, user)
    \/ send_response

SpecCalendar == Init /\ [][NextCalendar]_vars

\* the handlers behind request_check, delete_user among them; the requests
\* come from the sessions of stored users, or without a session, and name
\* stored users as the owners of entries
FromStoredUser(req) == req.user_id \in DOMAIN users \cup {0}

NextUsers ==
    \/ \E req \in DeleteUserRequests : FromStoredUser(req) /\ delete_user(req)
    \/ \E req \in UsersAddRequests : FromStoredUser(req) /\ ajax_add_entry(req, MaxUsersId)
    \/ \E req \in UsersChangeRequests :
          FromStoredUser(req) /\ ajax_change_entry(req, MaxUsersId)
    \/ \E req \in UsersDeleteRequests :
          FromStoredUser(req) /\ ajax_delete_entry(req, MaxUsersId)
    \/ \E req \in UsersMassRequests :
          /\ FromStoredUser(req)
          /\ req.target \in DOMAIN users
          /\ mass_holidays(req, MaxUsersId)
    \/ send_response

SpecUsers == Init /\ [][NextUsers]_vars

\* mass_holidays over the entries that ajax_add_entry and itself leave
NextMass ==
    \/ \E req \in MassAddRequests : ajax_add_entry(req, MaxMassId)
    \/ \E req \in MassHolidayRequests : mass_holidays(req, MaxMassId)
    \/ send_response

SpecMass == Init /\ [][NextMass]_vars

\* the handlers behind admin_check, called from the sessions of an
\* administrator, a regular user and a team leader
InitAdmin ==
    /\ users = InitialUsers
    /\ auth \in AuthTables
    /\ entries = {}
    /\ nextId = 1
    /\ response = NoResponse
    /\ call = NoCall
    /\ nextUserId = FirstNewUserId
    /\ workers = NoWorkers

NextAdmin ==
    \/ \E req \in AdminGetRequests : FromStoredUser(req) /\ get_user_data(req)
    \/ \E req \in AdminDeleteRequests : FromStoredUser(req) /\ delete_user(req)
    \/ \E req \in AddUserRequests : FromStoredUser(req) /\ add_user(req, MaxUserId)
    \/ \E req \in AdminMassRequests :
          /\ FromStoredUser(req)
          /\ req.target \in DOMAIN users
          /\ mass_holidays(req, MaxAdminId)
    \/ \E req \in AdminEntryRequests :
          FromStoredUser(req) /\ ajax_add_entry(req, MaxAdminId)
    \/ send_response

SpecAdmin == InitAdmin /\ [][NextAdmin]_vars

\* two server processes, each running one ajax_add_entry request, their steps
\* interleaved in every order
InitConcurrent ==
    /\ users = InitialUsers
    /\ auth = InitialAuth
    /\ entries = {}
    /\ nextId = 1
    /\ response = NoResponse
    /\ call = NoCall
    /\ nextUserId = FirstNewUserId
    /\ workers = [p \in Procs |-> IdleWorker]

NextConcurrent ==
    \/ \E p \in Procs, req \in ConcurrentRequests : add_entry_receive(p, req)
    \/ \E p \in Procs : add_entry_save(p)
    \/ \E p \in Procs : add_entry_calendar(p)

SpecConcurrent == InitConcurrent /\ [][NextConcurrent]_vars

\* ------------------------------------------------------------------------
\* Properties
\* ------------------------------------------------------------------------

\* a string "HH:MM" that names a time of day
WellFormedTime(s) ==
    /\ Len(s) = 5
    /\ s[3] = ":"
    /\ \A i \in {1, 2, 4, 5} : IsDigit(s[i])
    /\ DigitVal(s[1]) * 10 + DigitVal(s[2]) < 24
    /\ DigitVal(s[4]) * 10 + DigitVal(s[5]) < 60

\* the minute of the day that a well-formed string names
ClockMinutes(s) ==
    (DigitVal(s[1]) * 10 + DigitVal(s[2])) * 60 + DigitVal(s[4]) * 10 + DigitVal(s[5])

\* both times of a request are well formed and start is strictly before end
StartBeforeEnd(req) ==
    /\ WellFormedTime(req.start_time)
    /\ WellFormedTime(req.end_time)
    /\ ClockMinutes(req.start_time) < ClockMinutes(req.end_time)

\* both times of a request are well formed and start is equal to or after end
StartNotBeforeEnd(req) ==
    /\ WellFormedTime(req.start_time)
    /\ WellFormedTime(req.end_time)
    /\ ClockMinutes(req.start_time) >= ClockMinutes(req.end_time)

\* the error field of a JSON response, "(none)" when there is none
ErrorOf(resp) ==
    IF resp.status = "HttpResponse" /\ "error" \in DOMAIN resp.body
    THEN resp.body.error ELSE "(none)"

DuplicateError == "There is a duplicate entry for this value"

TimeError == "Start time after end time"

\* the table holds an entry of this user on the date the string names
KeyTaken(es, user, date) ==
    /\ ParseDate(date).exc = ""
    /\ \E e \in es : e.user_id = user /\ e.entry_date = ParseDate(date).val

\* the sequences that list each element of a finite set once
Orderings(S) ==
    {q \in [1..Cardinality(S) -> S] :
        \A i, j \in 1..Cardinality(S) : i # j => q[i] # q[j]}

CountOfType(S, daytype) == Cardinality({e \in S : e.daytype = daytype})

\* C1: for two well-formed "HH:MM" strings, validate_time returns true exactly
\* when start is strictly earlier than end; equal times and start later than
\* end return false.
ValidateTimeStrict ==
    (call.done /\ WellFormedTime(call.start) /\ WellFormedTime(call.end))
        => call.ret = Ok(ClockMinutes(call.start) < ClockMinutes(call.end))

\* validate_time has answered false to two equal times
ValidateTimeEqualTimes ==
    /\ call.done
    /\ call.start = TimeStr(9, 30)
    /\ call.end = TimeStr(9, 30)
    /\ call.ret = Ok(FALSE)

\* C2: in every state that add, change, delete and mass_holidays requests
\* reach, the table holds at most one entry for each (user, date).
AtMostOneEntryPerUserDate ==
    \A e1, e2 \in entries :
        (e1.user_id = e2.user_id /\ e1.entry_date = e2.entry_date) => e1 = e2

\* a change that would have moved an entry onto another entry's date was refused
ChangeOntoTakenDateRefused ==
    /\ response.op = "ajax_change_entry"
    /\ ErrorOf(response) = "IntegrityError: other"
    /\ Cardinality(entries) = 2

\* C3 as amended: an add request (ajax_add_entry or views.ajax) that passes the
\* request check and names a (user, date) that already has an entry leaves
\* the table as it was, and when its times are well formed with start
\* strictly before end it is answered with the duplicate-entry error.
DuplicateAddRefused ==
    [][ /\ \A req \in AddRequests :
              ( /\ request_check(req)
                /\ KeyTaken(entries, req.user_id, req.entry_date)
                /\ ajax_add_entry(req, MaxId) )
              => /\ entries' = entries
                 /\ StartBeforeEnd(req) => ErrorOf(response') = DuplicateError
        /\ \A req \in ViewsAjaxRequests :
              ( /\ req.is_ajax
                /\ KeyTaken(entries, 1, req.entry_date)
                /\ ajax(req, MaxId) )
              => /\ entries' = entries
                 /\ StartBeforeEnd(req) => ErrorOf(response') = DuplicateError
      ]_vars

\* views.ajax has answered an add on a taken date with the duplicate-entry error
ViewsAjaxDuplicateRefused ==
    /\ response.op = "ajax"
    /\ ErrorOf(response) = DuplicateError
    /\ \E e \in entries : e.user_id = 1

\* C3 as stated: an add request that names a (user, date) that already has an
\* entry is answered with the duplicate-entry error and leaves the table as
\* it was, whatever its times.
DuplicateAddAlwaysDuplicateError ==
    [][ /\ \A req \in AddRequests :
              ( /\ request_check(req)
                /\ KeyTaken(entries, req.user_id, req.entry_date)
                /\ ajax_add_entry(req, MaxId) )
              => /\ entries' = entries
                 /\ ErrorOf(response') = DuplicateError
        /\ \A req \in ViewsAjaxRequests :
              ( /\ req.is_ajax
                /\ KeyTaken(entries, 1, req.entry_date)
                /\ ajax(req, MaxId) )
              => /\ entries' = entries
                 /\ ErrorOf(response') = DuplicateError
      ]_vars

\* C4: whenever ajax_add_entry or ajax_change_entry refuses a request, the
\* JSON object it returns has a non-empty error and success equal to false.
RefusalHasSuccessFalse ==
    ( /\ response.op \in {"ajax_add_entry", "ajax_change_entry"}
      /\ response.status = "HttpResponse"
      /\ "calendar" \notin DOMAIN response.body )
    => /\ "error" \in DOMAIN response.body
       /\ response.body.error # ""
       /\ "success" \in DOMAIN response.body
       /\ response.body.success = FALSE

\* C5: every JSON response of an AJAX endpoint holds a boolean success and a
\* string error, and calendar is the only other field.
AjaxEnvelope ==
    ( /\ response.op \in {"ajax_add_entry", "ajax_change_entry",
                          "ajax_delete_entry", "mass_holidays"}
      /\ response.status = "HttpResponse" )
    => /\ {"success", "error"} \subseteq DOMAIN response.body
       /\ DOMAIN response.body \subseteq {"success", "error", "calendar"}
       /\ response.body.success \in BOOLEAN

\* what C6 asks of one request: a write only when start is strictly before
\* end, and the time error and no write when start is equal to or after end
TimeRule(req) ==
    /\ entries' # entries => StartBeforeEnd(req)
    /\ StartNotBeforeEnd(req) => (ErrorOf(response') = TimeError /\ entries' = entries)

\* C6: an add or change request (ajax_add_entry, ajax_change_entry, views.ajax)
\* writes only if start is strictly before end; when start is equal to or
\* after end it is answered with "Start time after end time" and the table
\* is left as it was.
WritesOnlyIfStartBeforeEnd ==
    [][ /\ \A req \in AddRequests :
              (request_check(req) /\ ajax_add_entry(req, MaxId)) => TimeRule(req)
        /\ \A req \in ChangeRequests :
              (request_check(req) /\ ajax_change_entry(req, MaxId)) => TimeRule(req)
        /\ \A req \in ViewsAjaxRequests :
              (req.is_ajax /\ ajax(req, MaxId)) => TimeRule(req)
      ]_vars

\* C7: the holiday balance that get_holiday_balance returned is the balance
\* that every order of the user's entries of the year gives.
BalanceOrderIndependent ==
    response.op = "get_holiday_balance" =>
        \A q \in Orderings(EntriesOfYear(entries, response.body.user,
                                         response.body.year)) :
            BalanceFold(users[response.body.user].holiday_balance, q)
                = response.body.balance

\* a balance was computed over entries that were inserted against the order of
\* their dates, a day of work on a public holiday before a holiday
BalanceOfEntriesInsertedOutOfOrder ==
    /\ response.op = "get_holiday_balance"
    /\ \E e1, e2 \in EntriesOfYear(entries, response.body.user, response.body.year) :
          /\ e1.id < e2.id
          /\ e1.entry_date[3] > e2.entry_date[3]
          /\ e1.daytype = "PUWRK"
          /\ e2.daytype = "HOLIS"

\* the user's entries of 2012 are a HOLIS, a PUWRK and a RETRN day on the
\* first three days of January, and the stored balance is 20
MixedEntries(user) ==
    /\ users[user].holiday_balance = 20
    /\ {<<e.entry_date, e.daytype>> : e \in EntriesOfYear(entries, user, 2012)}
           = { <<<<2012, 1, 1>>, "HOLIS">>, <<<<2012, 1, 2>>, "PUWRK">>,
               <<<<2012, 1, 3>>, "RETRN">> }

\* C8: with a stored balance of 20 and one HOLIS, one PUWRK and one RETRN
\* entry on 2012-01-01, -02 and -03, get_holiday_balance(2012) is 20.
MixedEntriesCancel ==
    ( /\ response.op = "get_holiday_balance"
      /\ response.body.year = 2012
      /\ MixedEntries(response.body.user) )
    => response.body.balance = 20

\* the balance of the three mixed entries was computed
MixedEntriesBalanceComputed ==
    /\ response.op = "get_holiday_balance"
    /\ response.body.year = 2012
    /\ MixedEntries(response.body.user)
    /\ response.body.balance = 20

\* what C9 asks of the balance of a user whose entries of the year are S
UniformBalance(base, S, balance) ==
    /\ (\A e \in S : e.daytype = "PUWRK") => balance = base + 2 * Cardinality(S)
    /\ (\A e \in S : e.daytype = "RETRN") => balance = base - Cardinality(S)

\* C9: with stored balance B and n entries in the year, all PUWRK, the
\* balance is B + 2n; all RETRN, it is B - n.
UniformEntriesBalance ==
    response.op = "get_holiday_balance" =>
        UniformBalance(users[response.body.user].holiday_balance,
                       EntriesOfYear(entries, response.body.user, response.body.year),
                       response.body.balance)

\* three PUWRK entries on a stored balance of 20 gave 26
ThreePublicHolidayDaysGive26 ==
    /\ response.op = "get_holiday_balance"
    /\ users[response.body.user].holiday_balance = 20
    /\ Cardinality(EntriesOfYear(entries, response.body.user, response.body.year)) = 3
    /\ \A e \in EntriesOfYear(entries, response.body.user, response.body.year) :
          e.daytype = "PUWRK"
    /\ response.body.balance = 26

\* the balance that the stored base and a set of entries give, counted by type
BalanceOfSet(base, S) ==
    base + 2 * CountOfType(S, "PUWRK") - CountOfType(S, "HOLIS") - CountOfType(S, "RETRN")

ReadOnlyOps ==
    {"get_holiday_balance", "download_all_holiday_data", "yearmonthhol",
     "ot_by_month", "ot_by_year", "holidays_for_yearmonth"}

\* C10: get_holiday_balance and the report endpoints write neither a user nor
\* an entry, and the balance computed after any additions, changes and
\* deletions is the one that the stored base and the current entries give.
BalanceIsReadOnly ==
    [][ /\ response'.op \in ReadOnlyOps =>
              (users' = users /\ entries' = entries /\ nextId' = nextId)
        /\ response'.op = "get_holiday_balance" =>
              response'.body.balance =
                  BalanceOfSet(users[response'.body.user].holiday_balance,
                               EntriesOfYear(entries', response'.body.user,
                                             response'.body.year))
      ]_vars

\* a balance of 19 was computed from a holiday and the stored 20, which is
\* still stored
BalanceComputedBaseKept ==
    /\ response.op = "get_holiday_balance"
    /\ response.body.balance = 19
    /\ users[response.body.user].holiday_balance = 20
    /\ CountOfType(EntriesOfYear(entries, response.body.user, response.body.year),
                   "HOLIS") = 1

\* the entries of one user that are dated in one year
OwnEntriesOfYear(user, year) ==
    {e \in entries : e.user_id = user /\ e.entry_date[1] = year}

\* C11: get_holiday_balance(year) counts only the user's own entries dated in
\* that year: the balance it returned is the one the stored base and those
\* entries give, whatever other users' and other years' entries are stored.
BalanceCountsOwnYearOnly ==
    response.op = "get_holiday_balance" =>
        response.body.balance =
            BalanceOfSet(users[response.body.user].holiday_balance,
                         OwnEntriesOfYear(response.body.user, response.body.year))

\* the balance of a user's one holiday of 2012 was computed while the table
\* held an entry of the same user in 2011 and an entry of another user in 2012
BalanceAmongForeignEntries ==
    /\ response.op = "get_holiday_balance"
    /\ response.body.year = 2012
    /\ response.body.balance = 19
    /\ \E e \in entries : e.user_id = response.body.user /\ e.entry_date[1] = 2011
    /\ \E e \in entries : e.user_id # response.body.user /\ e.entry_date[1] = 2012

\* the stored entry that a response of an entry method is about
EntryOf(resp) == CHOOSE e \in entries : e.id = resp.body.id

\* the minutes between start and end without the break, and the owner's shift
WorkedMinutes(e) ==
    (e.end_time[1] - e.start_time[1]) * 60 + (e.end_time[2] - e.start_time[2])
        - (e.breaks[1] * 60 + e.breaks[2])

ShiftMinutes(e) ==
    users[e.user_id].shiftlength[1] * 60 + users[e.user_id].shiftlength[2]

\* an entry 09:00 to the given end with a break of 00:15, on a shift of 07:45
NineTo(e, h, m) ==
    /\ e.start_time = <<9, 0, 0>>
    /\ e.end_time = <<h, m, 0>>
    /\ e.breaks = <<0, 15, 0>>
    /\ users[e.user_id].shiftlength = <<7, 45, 0>>

\* C12: is_overtime() is true exactly when end minus start minus break is
\* strictly greater than the owner's shift length; from 09:00 with break 00:15
\* on a 07:45 shift the ends 14:00, 16:45, 16:46 and 17:00 are not overtime,
\* 18:01 and 19:00 are.
OvertimeIffWorkedExceedsShift ==
    response.op = "is_overtime" =>
        /\ response.body.value = (WorkedMinutes(EntryOf(response))
                                      > ShiftMinutes(EntryOf(response)))
        /\ \A t \in {<<14, 0>>, <<16, 45>>, <<16, 46>>, <<17, 0>>} :
              NineTo(EntryOf(response), t[1], t[2]) => response.body.value = FALSE
        /\ \A t \in {<<18, 1>>, <<19, 0>>} :
              NineTo(EntryOf(response), t[1], t[2]) => response.body.value = TRUE

\* is_overtime() answered false for the entry that works exactly the shift
ExactShiftIsNotOvertime ==
    /\ response.op = "is_overtime"
    /\ NineTo(EntryOf(response), 17, 0)
    /\ response.body.value = FALSE

MonthLength(year, month) ==
    IF month = 2
    THEN IF year % 4 = 0 /\ (year % 100 # 0 \/ year % 400 = 0) THEN 29 ELSE 28
    ELSE <<31, 0, 31, 30, 31, 30, 31, 31, 30, 31, 30, 31>>[month]

\* the day of the week of a date by Zeller's congruence, with Monday as 0
DayOfWeek(year, month, day) ==
    With2(IF month < 3 THEN month + 12 ELSE month,
          IF month < 3 THEN year - 1 ELSE year, LAMBDA m, y :
        (day + ((13 * (m + 1)) \div 5) + (y % 100) + ((y % 100) \div 4)
             + ((y \div 100) \div 4) + 5 * (y \div 100) + 5) % 7)

\* gen_calendar has returned a calendar
CalendarReturned == response.op = "gen_calendar" /\ response.status = "value"

\* the cells of the returned calendar as (week, column) pairs
CellsOf(resp) ==
    {<<w, c>> : w \in 1..Len(resp.body.calendar.weeks), c \in 1..7}

\* a cell that stands for no day and no entry
BlankCell(cell) ==
    /\ cell.day = 0
    /\ cell.class = "empty"
    /\ cell.id = 0
    /\ cell.entry_date = <<>>
    /\ cell.onclick = <<>>

\* C15: gen_calendar with a month outside 1..12 ends with Http404, whoever the
\* user is, and returns no calendar; a month in 1..12 never ends with Http404.
UnknownMonthIsNotFound ==
    response.op = "gen_calendar" =>
        /\ response.body.month \notin 1..12 =>
              (response.status = "Http404" /\ response.body.calendar = <<>>)
        /\ response.body.month \in 1..12 => response.status # "Http404"

\* month 13 was refused for a user id that no user has
UnknownMonthOfUnknownUserRefused ==
    /\ response.op = "gen_calendar"
    /\ response.body.month = 13
    /\ response.body.user \notin DOMAIN users
    /\ response.status = "Http404"

\* C16: the grid of a year and a month in 1..12 is made of weeks of seven
\* cells with Monday first; each day 1..N of the month is in one cell, in
\* increasing order, and every other cell is a blank placeholder without a date.
GridIsMonthFromMonday ==
    CalendarReturned =>
        With2(response.body.calendar.weeks,
              MonthLength(response.body.year, response.body.month),
              LAMBDA weeks, n :
            /\ \A w \in 1..Len(weeks) :
                  /\ Len(weeks[w]) = 7
                  /\ \E c \in 1..7 : weeks[w][c].day # 0
            /\ \A d \in 1..n :
                  Cardinality({p \in CellsOf(response) :
                                   weeks[p[1]][p[2]].day = d}) = 1
            /\ \A p, q \in CellsOf(response) :
                  ( /\ weeks[p[1]][p[2]].day # 0
                    /\ weeks[q[1]][q[2]].day # 0
                    /\ weeks[p[1]][p[2]].day < weeks[q[1]][q[2]].day )
                  => (p[1] - 1) * 7 + p[2] < (q[1] - 1) * 7 + q[2]
            /\ \A p \in CellsOf(response) :
                  IF weeks[p[1]][p[2]].day = 0
                  THEN BlankCell(weeks[p[1]][p[2]])
                  ELSE /\ weeks[p[1]][p[2]].day \in 1..n
                       /\ p[2] = DayOfWeek(response.body.year, response.body.month,
                                           weeks[p[1]][p[2]].day) + 1)

\* a calendar of six weeks was returned, with blank cells before the first
\* day and after the last
SixWeekGridReturned ==
    /\ CalendarReturned
    /\ Len(response.body.calendar.weeks) = 6
    /\ response.body.calendar.weeks[1][1].day = 0
    /\ response.body.calendar.weeks[6][7].day = 0

\* the stored entries of the calendar's user on a day of the calendar's month
EntriesOnDay(resp, day) ==
    {e \in entries : /\ e.user_id = resp.body.user
                     /\ e.entry_date = <<resp.body.year, resp.body.month, day>>}

\* a cell that shows an entry
ShowsEntry(cell, e) ==
    /\ cell.id = e.id
    /\ cell.entry_date = e.entry_date
    /\ cell.start_time = e.start_time
    /\ cell.end_time = e.end_time
    /\ cell.breaks = e.breaks
    /\ cell.daytype = e.daytype

\* a cell that shows no entry
ShowsNoEntry(cell) ==
    /\ cell.id = 0
    /\ cell.class \in {"day-class empty-day", "empty"}
    /\ cell.entry_date = <<>>
    /\ cell.start_time = <<>>
    /\ cell.end_time = <<>>
    /\ cell.breaks = <<>>
    /\ cell.daytype = ""

\* C17: a cell of the grid for (year, month, user) shows an entry exactly when
\* it is a day of the month on which the store holds an entry of that user,
\* and then it shows that entry's id, times, break and day-type; every other
\* cell is empty, so no entry of another user or month is shown.
CellsShowOwnEntries ==
    CalendarReturned =>
        \A p \in CellsOf(response) :
            With(response.body.calendar.weeks[p[1]][p[2]], LAMBDA cell :
                IF cell.day # 0 /\ EntriesOnDay(response, cell.day) # {}
                THEN \A e \in EntriesOnDay(response, cell.day) : ShowsEntry(cell, e)
                ELSE ShowsNoEntry(cell))

\* a calendar was returned that shows its user's entry of the first of the
\* month and leaves the second empty, on which another user has an entry
OwnEntryShownForeignEntryHidden ==
    /\ CalendarReturned
    /\ \E e \in EntriesOnDay(response, 1) :
          ShowsEntry(response.body.calendar.weeks[1][7], e)
    /\ \E e \in entries : /\ e.user_id # response.body.user
                          /\ e.entry_date = <<response.body.year,
                                              response.body.month, 2>>
    /\ ShowsNoEntry(response.body.calendar.weeks[2][1])

\* C18: a call of gen_calendar changes no user and no entry, and what it
\* returns is what gen_calendar returns for the same year, month and user on
\* the same store with any day.
CalendarIsFunctionOfMonthAndEntries ==
    [][ response'.op = "gen_calendar" =>
          /\ users' = users /\ auth' = auth /\ entries' = entries /\ nextId' = nextId
          /\ \A day \in CalendarDays :
                With(gen_calendar(users', entries', response'.body.year,
                                  response'.body.month, day, response'.body.user),
                     LAMBDA again :
                    /\ response'.status = (IF again.exc = "" THEN "value" ELSE again.exc)
                    /\ response'.body.calendar = again.val)
      ]_vars

\* the calendar of a February was returned for the day 31
CalendarOfFebruaryForDay31 ==
    /\ CalendarReturned
    /\ response.body.month = 2
    /\ response.body.day = 31
    /\ \E p \in CellsOf(response) :
          response.body.calendar.weeks[p[1]][p[2]].id # 0

\* the request is an AJAX request and its session has a user id
AjaxWithSession(req) == req.is_ajax /\ req.user_id # 0

\* the request names a user id by one digit
NamesUserId(req) == Len(req.target) = 1 /\ IsDigit(req.target[1])

\* the JSON object of a response is {success, error} with these values
Answers(resp, success, error) ==
    /\ resp.status = "HttpResponse"
    /\ DOMAIN resp.body = {"success", "error"}
    /\ resp.body.success = success
    /\ resp.body.error = error

\* C19: delete_user with the id of a stored user removes that user and answers
\* {success: true, error: ""}; with an id that no user has it answers
\* {success: false, error: "User does not exist"} and leaves the users as they
\* were.
DeleteUserAnswers ==
    [][ \A req \in DeleteUserRequests :
            (AjaxWithSession(req) /\ NamesUserId(req) /\ delete_user(req)) =>
                IF DigitVal(req.target[1]) \in DOMAIN users
                THEN /\ DOMAIN users' = DOMAIN users \ {DigitVal(req.target[1])}
                     /\ Answers(response', TRUE, "")
                ELSE /\ users' = users
                     /\ Answers(response', FALSE, "User does not exist")
      ]_vars

\* the request is refused with Http404 and nothing is written
AbortedUnchanged ==
    /\ response'.status = "Http404"
    /\ response'.body = <<>>
    /\ users' = users
    /\ auth' = auth
    /\ entries' = entries
    /\ nextId' = nextId

\* C20: a handler behind request_check runs only for an AJAX request whose
\* session has a user id; any other request ends with Http404 and changes no
\* user and no entry.
RequestCheckGuards ==
    [][ /\ \A req \in UsersAddRequests :
              (~AjaxWithSession(req) /\ ajax_add_entry(req, MaxUsersId))
                  => AbortedUnchanged
        /\ \A req \in UsersChangeRequests :
              (~AjaxWithSession(req) /\ ajax_change_entry(req, MaxUsersId))
                  => AbortedUnchanged
        /\ \A req \in UsersDeleteRequests :
              (~AjaxWithSession(req) /\ ajax_delete_entry(req, MaxUsersId))
                  => AbortedUnchanged
        /\ \A req \in UsersMassRequests :
              (~AjaxWithSession(req) /\ mass_holidays(req, MaxUsersId))
                  => AbortedUnchanged
        /\ \A req \in DeleteUserRequests :
              (~AjaxWithSession(req) /\ delete_user(req)) => AbortedUnchanged
      ]_vars

\* a delete_user request was refused with Http404 while the user it names
\* and an entry are stored
DeleteUserRequestRefused ==
    /\ response.op = "delete_user"
    /\ response.status = "Http404"
    /\ 2 \in DOMAIN users
    /\ entries # {}

\* ------------------------------------------------------------------------
\* The reports
\* ------------------------------------------------------------------------

\* the stored users that an authorization record links to the admin
LinkedTo(admin) ==
    {u \in DOMAIN users : \E a \in DOMAIN auth : auth[a].admin = admin /\ u \in auth[a].users}

\* the rows of a report, as a set
RowsOf(resp) == {resp.body.rows[i] : i \in 1..Len(resp.body.rows)}

\* C21: download_all_holiday_data answers with a report for the target who
\* only if who is linked to the acting user; the report then has the target's
\* entries and no others.  With no target, or a target that is not linked to
\* the acting user, the request ends with Http404 and carries no data.
DownloadOnlyForSubordinates ==
    [][\A req \in ReportRequests :
          download_all_holiday_data(req) =>
              /\ response'.status = "HttpResponse" =>
                     /\ req.who \in LinkedTo(req.user_id)
                     /\ RowsOf(response') =
                            {display_as_csv(e) : e \in {x \in entries : x.user_id = req.who}}
                     /\ response'.body.filename = <<"AllHolidayData", req.who>>
              /\ (req.who = 0 \/ req.who \notin LinkedTo(req.user_id)) =>
                     /\ response'.status = "Http404"
                     /\ response'.body = <<>>]_vars

\* a request for the entries of user 2 was refused while user 2 has entries
DownloadRefusedWithEntriesStored ==
    /\ response.op = "download_all_holiday_data"
    /\ response.status = "Http404"
    /\ \E e \in entries : e.user_id = 2

\* C24: every CSV report starts with the byte-order mark, has one header row,
\* and each of its data rows has as many columns as the header row.
CsvRowsMatchHeader ==
    (/\ response.op \in {"download_all_holiday_data", "yearmonthhol", "ot_by_month",
                         "ot_by_year", "holidays_for_yearmonth"}
     /\ response.status = "HttpResponse")
        => /\ response.body.bom
           /\ \A i \in 1..Len(response.body.rows) :
                  Len(response.body.rows[i]) = Len(response.body.header)

\* ------------------------------------------------------------------------
\* The entry handlers: ownership, the returned calendar, the frame of a change
\* ------------------------------------------------------------------------

\* C25: ajax_delete_entry and ajax_change_entry leave every entry of a user
\* other than the session user as it was: they neither delete it, nor change
\* its fields, nor hand it to the requester.
OnlyOwnEntriesAffected ==
    [][/\ \A req \in DeleteRequests :
              ajax_delete_entry(req, MaxId) =>
                  \A e \in entries : e.user_id # req.user_id => e \in entries'
       /\ \A req \in ChangeRequests :
              ajax_change_entry(req, MaxId) =>
                  \A e \in entries : e.user_id # req.user_id => e \in entries']_vars

\* C30: ajax_change_entry never changes the number of stored entries; with a
\* hidden-id that no entry has, and whenever it does not answer success, it
\* leaves every entry as it was.
ChangeKeepsEntries ==
    [][\A req \in ChangeRequests :
          ajax_change_entry(req, MaxId) =>
              /\ Cardinality(entries') = Cardinality(entries)
              /\ (\A e \in entries : e.id # req.hidden_id) => entries' = entries
              /\ ~( /\ response'.status = "HttpResponse"
                    /\ "success" \in DOMAIN response'.body ) => entries' = entries]_vars

\* the response is the JSON object of a success
Succeeded(resp) ==
    /\ resp.status = "HttpResponse"
    /\ "success" \in DOMAIN resp.body
    /\ resp.body.success

\* the year, month and day that a submitted entry_date names, among those of
\* FormDates and BadDate
DateOf(s) ==
    CHOOSE t \in {<<2012, 1, 1>>, <<2012, 1, 2>>, <<2012, 13, 1>>} :
        DateStr(t[1], t[2], t[3]) = s

\* the cell of a day of the month in a calendar
CellOfDay(cal, day) ==
    With(CHOOSE p \in {<<w, c>> : w \in 1..Len(cal.weeks), c \in 1..7} :
             cal.weeks[p[1]][p[2]].day = day,
         LAMBDA p : cal.weeks[p[1]][p[2]])

\* the calendar of the response is gen_calendar of the submitted date and the
\* session user over the users and entries as the request leaves them
CalendarOfStoreAfter(req) ==
    With(DateOf(req.entry_date), LAMBDA t :
        response'.body.calendar =
            gen_calendar(users', entries', t[1], t[2], t[3], req.user_id).val)

\* C29: the calendar in a successful add, change or delete response is
\* gen_calendar(year, month, day, user) of the submitted entry_date and the
\* session user over the store as the request leaves it: the day of an entry
\* just added or changed shows that entry, and the day of one of the user's
\* entries just deleted from that month shows no entry.
CalendarAfterOperation ==
    [][/\ \A req \in UsersAddRequests :
              ( /\ Succeeded(response')
                /\ response'.op = "ajax_add_entry"
                /\ ajax_add_entry(req, MaxUsersId) ) =>
                  /\ CalendarOfStoreAfter(req)
                  /\ \E e \in entries' \ entries :
                         ShowsEntry(CellOfDay(response'.body.calendar,
                                              DateOf(req.entry_date)[3]), e)
       /\ \A req \in UsersChangeRequests :
              ( /\ Succeeded(response')
                /\ response'.op = "ajax_change_entry"
                /\ ajax_change_entry(req, MaxUsersId) ) =>
                  /\ CalendarOfStoreAfter(req)
                  /\ req.hidden_id # 0 =>
                         \E e \in entries' :
                             /\ e.id = req.hidden_id
                             /\ ShowsEntry(CellOfDay(response'.body.calendar,
                                                     DateOf(req.entry_date)[3]), e)
       /\ \A req \in UsersDeleteRequests :
              ( /\ Succeeded(response')
                /\ response'.op = "ajax_delete_entry"
                /\ ajax_delete_entry(req, MaxUsersId) ) =>
                  /\ CalendarOfStoreAfter(req)
                  /\ \A e \in entries :
                         ( /\ e.id = req.hidden_id
                           /\ e.user_id = req.user_id
                           /\ e.entry_date[1] = DateOf(req.entry_date)[1]
                           /\ e.entry_date[2] = DateOf(req.entry_date)[2] )
                         => ShowsNoEntry(CellOfDay(response'.body.calendar,
                                                   e.entry_date[3]))]_vars

\* a delete was answered with a calendar in which no day shows an entry, after
\* the one entry that was stored has gone
DeletedEntryGoneFromCalendar ==
    /\ response.op = "ajax_delete_entry"
    /\ Succeeded(response)
    /\ nextId = 2
    /\ entries = {}
    /\ \A w \in 1..Len(response.body.calendar.weeks), c \in 1..7 :
           response.body.calendar.weeks[w][c].id = 0

\* ------------------------------------------------------------------------
\* mass_holidays
\* ------------------------------------------------------------------------

\* the number that a submitted year, month or day names
NumberOf(s) == CHOOSE n \in {1, 2, 31, 2012} : PyStr(n) = s

\* the entries of a table that the user has on the date
EntriesOn(es, user, date) == {e \in es : e.user_id = user /\ e.entry_date = date}

\* the date of the i-th item of a request's holiday_data
ItemDate(req, i) ==
    <<NumberOf(req.year), NumberOf(req.month), NumberOf(req.holiday_data[i][1])>>

\* C22: after a successful mass_holidays request, for every day listed in the
\* data: with the value "empty" or "" the target user has no entry on that
\* date, and otherwise exactly one entry, of the submitted day type; an entry
\* that was there before keeps its id, start time, end time and break.
\* Running the same request again succeeds and leaves the entries as they are.
MassHolidaysSetsDayTypes ==
    [][\A req \in MassHolidayRequests :
          ( /\ Succeeded(response')
            /\ response'.op = "mass_holidays"
            /\ mass_holidays(req, MaxMassId) ) =>
              /\ \A i \in 1..Len(req.holiday_data) :
                    With2(EntriesOn(entries, req.target, ItemDate(req, i)),
                          EntriesOn(entries', req.target, ItemDate(req, i)),
                          LAMBDA before, after :
                        IF req.holiday_data[i][2] \in {"empty", ""}
                        THEN after = {}
                        ELSE /\ Cardinality(after) = 1
                             /\ \A e \in after :
                                   /\ e.daytype = req.holiday_data[i][2]
                                   /\ \A b \in before :
                                         /\ e.id = b.id
                                         /\ e.start_time = b.start_time
                                         /\ e.end_time = b.end_time
                                         /\ e.breaks = b.breaks)
              /\ With(MassHolidays(users', entries', nextId', req), LAMBDA again :
                    /\ Succeeded(again.response)
                    /\ again.entries = entries')]_vars

\* mass_holidays succeeded and left user 2 a holiday that has working times:
\* an entry that was there before and got the day type
MassHolidayKeptTimes ==
    /\ response.op = "mass_holidays"
    /\ Succeeded(response)
    /\ \E e \in entries : /\ e.user_id = 2
                          /\ e.daytype = "HOLIS"
                          /\ e.start_time = <<9, 0, 0>>
                          /\ e.end_time = <<17, 0, 0>>

\* C28: a mass_holidays request that ends with an error, success false or an
\* exception, leaves every entry as it was.
MassHolidaysAllOrNothing ==
    [][\A req \in MassHolidayRequests :
          ( /\ response'.op = "mass_holidays"
            /\ ~Succeeded(response')
            /\ mass_holidays(req, MaxMassId) ) => entries' = entries]_vars

\* ------------------------------------------------------------------------
\* The handlers behind admin_check
\* ------------------------------------------------------------------------

\* the session user of the request is a regular user
FromRegularUser(req) ==
    /\ req.user_id \in DOMAIN users
    /\ users[req.user_id].user_type = "RUSER"

\* the request was aborted and no user, link or entry was touched
AbortedNothingTouched ==
    /\ response'.status # "HttpResponse"
    /\ users' = users
    /\ auth' = auth
    /\ entries' = entries

\* C26: get_user_data, delete_user, add_user and mass_holidays change or
\* reveal data only for an administrator: a request from the session of a
\* regular user is aborted, and no user or entry is created, changed or deleted.
RegularUserLockedOut ==
    [][/\ \A req \in AdminGetRequests :
              (FromRegularUser(req) /\ get_user_data(req)) => AbortedNothingTouched
       /\ \A req \in AdminDeleteRequests :
              (FromRegularUser(req) /\ delete_user(req)) => AbortedNothingTouched
       /\ \A req \in AddUserRequests :
              (FromRegularUser(req) /\ add_user(req, MaxUserId)) => AbortedNothingTouched
       /\ \A req \in AdminMassRequests :
              (FromRegularUser(req) /\ mass_holidays(req, MaxAdminId))
                  => AbortedNothingTouched]_vars

\* the users of a table that a record of a table of links gives the admin
LinkedIn(us, au, admin) ==
    {u \in DOMAIN us : \E a \in DOMAIN au : au[a].admin = admin /\ u \in au[a].users}

\* C27: add_user answers success true only if a new user of the posted name
\* was stored and is now among the users linked to the acting admin; when it
\* answers with an error, success is false and the table of users is as it was.
AddUserAnswers ==
    [][\A req \in AddUserRequests :
          add_user(req, MaxUserId) =>
              /\ Succeeded(response') =>
                     \E u \in DOMAIN users' \ DOMAIN users :
                         /\ users'[u].user_id = req.data.user_id
                         /\ u \in LinkedIn(users', auth', req.user_id)
              /\ ( /\ response'.status = "HttpResponse"
                   /\ response'.body.error # "" ) =>
                     /\ ~response'.body.success
                     /\ users' = users]_vars

\* ------------------------------------------------------------------------
\* Concurrent add-entry requests
\* ------------------------------------------------------------------------

\* two processes have their responses to requests for the same user and date
BothAnswered(p, q) ==
    /\ p # q
    /\ workers[p].pc = "done"
    /\ workers[q].pc = "done"
    /\ workers[p].req.user_id = workers[q].req.user_id
    /\ workers[p].req.entry_date = workers[q].req.entry_date

\* the entry has every field from this request
EntryOfRequest(e, req) ==
    /\ e.user_id = req.user_id
    /\ e.entry_date = DateOf(req.entry_date)
    /\ WellFormedTime(req.start_time)
    /\ WellFormedTime(req.end_time)
    /\ e.start_time[1] * 60 + e.start_time[2] = ClockMinutes(req.start_time)
    /\ e.end_time[1] * 60 + e.end_time[2] = ClockMinutes(req.end_time)
    /\ e.daytype = req.daytype

\* the first process stored its entry and the second got the duplicate error
OneStoredOtherDuplicate(p, q) ==
    /\ Succeeded(workers[p].response)
    /\ ErrorOf(workers[q].response) = DuplicateError
    /\ \E e \in entries : EntryOfRequest(e, workers[p].req)

\* the table has one entry at most per user and date, and each entry has all
\* its fields from the request of one process that has run its INSERT
NeverTwoNorMixed ==
    /\ \A e1, e2 \in entries :
           (e1.user_id = e2.user_id /\ e1.entry_date = e2.entry_date) => e1 = e2
    /\ \A e \in entries :
           \E p \in Procs : /\ workers[p].pc \in {"calendar", "done"}
                            /\ EntryOfRequest(e, workers[p].req)

\* C23 as stated: of two concurrent add-entry requests for the same user and
\* date, exactly one stores its entry and the other receives the
\* duplicate-entry error; never two entries, never a mixed one.
ConcurrentAddsOneStoresOtherDuplicate ==
    /\ NeverTwoNorMixed
    /\ \A p, q \in Procs :
           BothAnswered(p, q) =>
               (OneStoredOtherDuplicate(p, q) \/ OneStoredOtherDuplicate(q, p))

\* C23: of two concurrent add-entry requests for the same user and date that
\* both pass the request check and the time validation, in every interleaving
\* exactly one stores its entry and the other receives the duplicate-entry
\* error; a request that fails the validation gets the validation's error and
\* stores nothing.  The table never has two entries for the pair, nor an
\* entry that mixes the fields of the two requests.
ConcurrentValidAddsOneStoresOtherDuplicate ==
    /\ NeverTwoNorMixed
    /\ \A p, q \in Procs :
           BothAnswered(p, q) =>
               IF /\ AjaxWithSession(workers[p].req) /\ StartBeforeEnd(workers[p].req)
                  /\ AjaxWithSession(workers[q].req) /\ StartBeforeEnd(workers[q].req)
               THEN /\ OneStoredOtherDuplicate(p, q) \/ OneStoredOtherDuplicate(q, p)
                    /\ ~(Succeeded(workers[p].response) /\ Succeeded(workers[q].response))
               ELSE \A r \in {p, q} :
                        ~StartBeforeEnd(workers[r].req) =>
                            /\ ErrorOf(workers[r].response) = TimeError
                            /\ \A e \in entries : ~EntryOfRequest(e, workers[r].req)

\* two requests for the same date with different fields have their answers:
\* process 1 got the duplicate error and the entry has the fields of the
\* request of process 2
RacingAddsOneRefused ==
    /\ workers[1].pc = "done"
    /\ workers[2].pc = "done"
    /\ workers[1].req.entry_date = workers[2].req.entry_date
    /\ workers[1].req.daytype # workers[2].req.daytype
    /\ ErrorOf(workers[1].response) = DuplicateError
    /\ Succeeded(workers[2].response)
    /\ \E e \in entries : EntryOfRequest(e, workers[2].req)

====
